---- MODULE Spec2Model ----
(***************************************************************************)
(* A model of the i18ncpp library (class i18n::I18N): locale fallback,     *)
(* plural rules, key lookup, the translation resolver and its template     *)
(* passes, format configuration and loading.                               *)
(*                                                                         *)
(* A std::string is a sequence of one-character strings (the text is       *)
(* repeated in a comment at the end of the line), a nlohmann::json value   *)
(* is a pair <<type, content>>, and a C++ exception leaving a function is  *)
(* the outcome Throw(kind).                                                *)
(*                                                                         *)
(* Spec runs the public operations on an instance from its construction;   *)
(* HelperSpec applies the private helpers and the resolver to inputs drawn *)
(* from bounded sets, on an instance with three locale files loaded.       *)
(***************************************************************************)
EXTENDS Integers, Sequences, FiniteSets, TLC

-----------------------------------------------------------------------------
(* Characters and strings *)

Printable ==
    <<
       " ", "!", "\"", "#", "$", "%", "&", "'", "(", ")", "*", "+", ",", "-", ".", "/",
       "0", "1", "2", "3", "4", "5", "6", "7", "8", "9", ":", ";", "<", "=", ">", "?",
       "@", "A", "B", "C", "D", "E", "F", "G", "H", "I", "J", "K", "L", "M", "N", "O",
       "P", "Q", "R", "S", "T", "U", "V", "W", "X", "Y", "Z", "[", "\\", "]", "^", "_",
       "(backtick)", "a", "b", "c", "d", "e", "f", "g", "h", "i", "j", "k", "l", "m", "n", "o",
       "p", "q", "r", "s", "t", "u", "v", "w", "x", "y", "z", "{", "|", "}", "~"
    >>

Chars == {Printable[i] : i \in 1..Len(Printable)}

\* The byte value of a character (ASCII), the order std::string compares by.
CharCode == [c \in Chars |-> 31 + (CHOOSE i \in 1..Len(Printable) : Printable[i] = c)]

DigitChars == <<"0", "1", "2", "3", "4", "5", "6", "7", "8", "9">>

IsDigit(c) == CharCode[c] >= 48 /\ CharCode[c] <= 57

\* The regex class \w: [A-Za-z0-9_].
IsWord(c) ==
    \/ IsDigit(c)
    \/ (CharCode[c] >= 65 /\ CharCode[c] <= 90)
    \/ (CharCode[c] >= 97 /\ CharCode[c] <= 122)
    \/ c = "_"

\* operator< of std::string: lexicographic by byte.
RECURSIVE StrLess(_, _)
StrLess(a, b) ==
    IF a = <<>> THEN b # <<>>
    ELSE IF b = <<>> THEN FALSE
    ELSE IF Head(a) = Head(b) THEN StrLess(Tail(a), Tail(b))
    ELSE CharCode[Head(a)] < CharCode[Head(b)]

\* The keys of a std::map<std::string, json> in its iteration order.
RECURSIVE SortedKeys(_)
SortedKeys(K) ==
    IF K = {} THEN <<>>
    ELSE LET m == CHOOSE x \in K : \A y \in K \ {x} : StrLess(x, y)
         IN <<m>> \o SortedKeys(K \ {m})

RECURSIVE Concat(_)
Concat(ss) == IF ss = <<>> THEN <<>> ELSE Head(ss) \o Concat(Tail(ss))

Reverse(s) == [i \in 1..Len(s) |-> s[Len(s) + 1 - i]]

\* std::string_view::find(c, from), positions counted from 1; 0 is npos.
RECURSIVE FindChar(_, _, _)
FindChar(s, c, from) ==
    IF from > Len(s) THEN 0
    ELSE IF s[from] = c THEN from
    ELSE FindChar(s, c, from + 1)

\* std::to_string(int) for a non-negative value.
RECURSIVE NatToString(_)
NatToString(n) ==
    IF n < 10 THEN <<DigitChars[n + 1]>>
    ELSE NatToString(n \div 10) \o <<DigitChars[(n % 10) + 1]>>

\* std::to_string(int).
to_string(n) == IF n < 0 THEN <<"-">> \o NatToString(-n) ELSE NatToString(n)

-----------------------------------------------------------------------------
(* nlohmann::json values *)

\* A value is the pair <<type, content>>: j[1] is its type, j[2] its content.
JString(s) == <<"string", s>>
JNumber(n) == <<"number", n>>
JBool(b) == <<"boolean", b>>
JNull == <<"null", 0>>
JArray(a) == <<"array", a>>
JObject(f) == <<"object", f>>

\* json::object(): the default parameter tree.
EmptyObject == JObject(<<>>)

is_string(j) == j[1] = "string"
is_number(j) == j[1] = "number"
is_boolean(j) == j[1] = "boolean"
is_array(j) == j[1] = "array"
is_object(j) == j[1] = "object"

\* json::contains(key): false for every value that is not an object.
contains(j, key) == is_object(j) /\ key \in DOMAIN j[2]

\* A one-pair object, and the union of objects with distinct keys.
Pair(k, val) == [x \in {k} |-> val]
Members(ps) ==
    [k \in UNION {DOMAIN ps[i] : i \in 1..Len(ps)} |->
        LET i == CHOOSE i \in 1..Len(ps) : k \in DOMAIN ps[i] IN ps[i][k]]
Obj(ps) == JObject(Members(ps))

\* json::erase(key) on an object.
erase(j, key) == JObject([k \in (DOMAIN j[2]) \ {key} |-> j[2][k]])

\* The text of a json string inside dump(): quotes and backslashes escaped.
RECURSIVE Escaped(_)
Escaped(s) ==
    IF s = <<>> THEN <<>>
    ELSE (IF Head(s) = "\"" THEN <<"\\", "\"">>
          ELSE IF Head(s) = "\\" THEN <<"\\", "\\">>
          ELSE <<Head(s)>>) \o Escaped(Tail(s))

\* json::dump() with no indentation.
RECURSIVE dump(_)
RECURSIVE DumpItems(_)
RECURSIVE DumpMembers(_, _)
dump(j) ==
    CASE j[1] = "string" -> <<"\"">> \o Escaped(j[2]) \o <<"\"">>
      [] j[1] = "number" -> to_string(j[2])
      [] j[1] = "boolean" -> IF j[2] THEN <<"t","r","u","e">> ELSE <<"f","a","l","s","e">>  \* "true", "false"
      [] j[1] = "null" -> <<"n","u","l","l">>  \* "null"
      [] j[1] = "array" -> <<"[">> \o DumpItems(j[2]) \o <<"]">>
      [] j[1] = "object" -> <<"{">> \o DumpMembers(j[2], SortedKeys(DOMAIN j[2])) \o <<"}">>
DumpItems(a) ==
    IF a = <<>> THEN <<>>
    ELSE dump(Head(a)) \o (IF Len(a) > 1 THEN <<",">> ELSE <<>>) \o DumpItems(Tail(a))
DumpMembers(f, ks) ==
    IF ks = <<>> THEN <<>>
    ELSE <<"\"">> \o Escaped(Head(ks)) \o <<"\"", ":">> \o dump(f[Head(ks)])
         \o (IF Len(ks) > 1 THEN <<",">> ELSE <<>>) \o DumpMembers(f, Tail(ks))

-----------------------------------------------------------------------------
(* Outcomes of a call: a returned std::string, or an exception *)

Return(s) == [exc |-> "", s |-> s]
Throw(kind) == [exc |-> kind, s |-> <<>>]
Threw(r) == r.exc # ""

\* json::get<std::string>(): type_error 302 unless the value is a string.
get_string(j) == IF is_string(j) THEN Return(j[2]) ELSE Throw("type_error")

-----------------------------------------------------------------------------
(* The I18N instance *)

VARIABLES
    locales,         \* std::vector<std::string> locales: the active locales
    fallbackLocale,  \* std::string fallbackLocale
    localesData,     \* std::unordered_map<std::string, json> localesData
    formatConfigs,   \* std::unordered_map<std::string, FormatConfig> formatConfigs
    defaultConfig,   \* FormatConfig defaultConfig: the config in effect
    recent,          \* history: a load and the setLocale after it, while nothing else ran
    call             \* the operation that just ran, its arguments and its outcome

vars == <<locales, fallbackLocale, localesData, formatConfigs, defaultConfig, recent, call>>

-----------------------------------------------------------------------------
(* Key lookup *)

RECURSIVE dotSplitFrom(_, _)
dotSplitFrom(str, start) ==
    LET end == FindChar(str, ".", start)
    IN IF end # 0
       THEN <<SubSeq(str, start, end - 1)>> \o dotSplitFrom(str, end + 1)
       ELSE IF start <= Len(str) THEN <<SubSeq(str, start, Len(str))>> ELSE <<>>

dotSplit(str) == dotSplitFrom(str, 1)

\* A json pointer: nullptr, or the node pointed to.
nullptr == [found |-> FALSE, node |-> JNull]
PointerTo(node) == [found |-> TRUE, node |-> node]

RECURSIVE WalkPath(_, _)
WalkPath(node, path) ==
    IF path = <<>> THEN PointerTo(node)
    ELSE IF ~is_object(node) \/ ~contains(node, Head(path)) THEN nullptr
    ELSE WalkPath(node[2][Head(path)], Tail(path))

getTranslationData(key, locale) ==
    IF locale = <<>> THEN nullptr
    ELSE IF locale \notin DOMAIN localesData THEN nullptr
    ELSE WalkPath(localesData[locale], dotSplit(key))

-----------------------------------------------------------------------------
(* Locale fallback *)

\* A root that keeps the region: the whole identifier.
WholeIdentifier(locale) == locale

getLocaleRoot(locale) ==
    LET dashPos == FindChar(locale, "-", 1)
    IN IF dashPos # 0 THEN SubSeq(locale, 1, dashPos - 1) ELSE locale

RECURSIVE AncestryLoop(_, _, _, _)
AncestryLoop(locale, i, current, result) ==
    IF i > Len(locale) THEN Append(result, current)
    ELSE AncestryLoop(locale, i + 1, Append(current, locale[i]),
                      IF locale[i] = "-" THEN Append(result, current) ELSE result)

\* An ancestry that is not reversed: least specific first.
AncestryLeastSpecificFirst(locale) == AncestryLoop(locale, 1, <<>>, <<>>)

getLocaleAncestry(locale) == Reverse(AncestryLoop(locale, 1, <<>>, <<>>))

Seen(result) == {result[i] : i \in 1..Len(result)}

RECURSIVE AddUnseen(_, _)
AddUnseen(result, ancestry) ==
    IF ancestry = <<>> THEN result
    ELSE AddUnseen(IF Head(ancestry) \in Seen(result) THEN result
                   ELSE Append(result, Head(ancestry)),
                   Tail(ancestry))

RECURSIVE FallbackLoop(_, _)
FallbackLoop(requested, result) ==
    IF requested = <<>> THEN result
    ELSE FallbackLoop(Tail(requested), AddUnseen(result, getLocaleAncestry(Head(requested))))

getFallbacks(requested) ==
    LET result == FallbackLoop(requested, <<>>)
    IN IF fallbackLocale # <<>> /\ fallbackLocale \notin Seen(result)
       THEN Append(result, fallbackLocale)
       ELSE result

-----------------------------------------------------------------------------
(* Plural rules *)

\* The operator % of C++ on int: the remainder has the sign of the dividend.
CRem(a, b) == IF a >= 0 THEN a % b ELSE -((-a) % b)

RuleRoots(rule) ==
    CASE rule = 1 -> {<<"e","n">>, <<"d","e">>, <<"n","l">>, <<"s","v">>, <<"d","a">>, <<"n","o">>, <<"n","b">>,  \* "en", "de", "nl", "sv", "da", "no", "nb"
                      <<"n","n">>, <<"f","o">>, <<"e","s">>, <<"p","t">>, <<"i","t">>, <<"b","g">>, <<"e","l">>,  \* "nn", "fo", "es", "pt", "it", "bg", "el"
                      <<"f","i">>, <<"e","t">>, <<"h","e">>, <<"e","o">>}  \* "fi", "et", "he", "eo"
      [] rule = 5 -> {<<"r","u">>, <<"u","k">>, <<"b","e">>, <<"h","r">>, <<"s","r">>, <<"b","s">>, <<"s","h">>}  \* "ru", "uk", "be", "hr", "sr", "bs", "sh"
      [] rule = 21 -> {<<"p","l">>}  \* "pl"
      [] rule = 7 -> {<<"c","s">>, <<"s","k">>}  \* "cs", "sk"
      [] rule = 9 -> {<<"f","r">>, <<"f","f">>, <<"k","a","b">>}  \* "fr", "ff", "kab"
      [] rule = 3 -> {<<"a","r">>}  \* "ar"

RuleNumbers == {1, 5, 21, 7, 9, 3}

\* static const std::unordered_map<std::string, int> localeRules
localeRules ==
    [root \in UNION {RuleRoots(r) : r \in RuleNumbers} |->
        CHOOSE r \in RuleNumbers : root \in RuleRoots(r)]

getPluralForm(locale, count) ==
    LET root == getLocaleRoot(locale)
        rule == IF root \in DOMAIN localeRules THEN localeRules[root] ELSE 1
        m10 == CRem(count, 10)
        m100 == CRem(count, 100)
    IN CASE rule = 1 -> IF count = 1 THEN <<"o","n","e">> ELSE <<"o","t","h","e","r">>  \* "one", "other"
         [] rule = 5 ->
              IF m10 = 1 /\ m100 # 11 THEN <<"o","n","e">>  \* "one"
              ELSE IF m10 >= 2 /\ m10 <= 4 /\ (m100 < 12 \/ m100 > 14) THEN <<"f","e","w">>  \* "few"
              ELSE IF m10 = 0 \/ (m10 >= 5 /\ m10 <= 9) \/ (m100 >= 11 /\ m100 <= 14)
                   THEN <<"m","a","n","y">>  \* "many"
              ELSE <<"o","t","h","e","r">>  \* "other"
         [] rule = 21 ->
              IF count = 1 THEN <<"o","n","e">>  \* "one"
              ELSE IF m10 >= 2 /\ m10 <= 4 /\ (m100 < 12 \/ m100 > 14) THEN <<"f","e","w">>  \* "few"
              ELSE <<"m","a","n","y">>  \* "many"
         [] rule = 7 ->
              IF count = 1 THEN <<"o","n","e">>  \* "one"
              ELSE IF count >= 2 /\ count <= 4 THEN <<"f","e","w">>  \* "few"
              ELSE <<"o","t","h","e","r">>  \* "other"
         [] rule = 9 -> IF count < 2 THEN <<"o","n","e">> ELSE <<"o","t","h","e","r">>  \* "one", "other"
         [] rule = 3 ->
              IF count = 0 THEN <<"z","e","r","o">>  \* "zero"
              ELSE IF count = 1 THEN <<"o","n","e">>  \* "one"
              ELSE IF count = 2 THEN <<"t","w","o">>  \* "two"
              ELSE IF m100 >= 3 /\ m100 <= 10 THEN <<"f","e","w">>  \* "few"
              ELSE IF m100 >= 11 /\ m100 <= 99 THEN <<"m","a","n","y">>  \* "many"
              ELSE <<"o","t","h","e","r">>  \* "other"
         [] OTHER -> IF count = 1 THEN <<"o","n","e">> ELSE <<"o","t","h","e","r">>  \* "one", "other"

-----------------------------------------------------------------------------
(* Interpolation: the %{key} and %<key>.fmt passes over a parameter tree *)

\* The end of the longest run of [\w\.] characters that starts at index i.
RECURSIVE KeyRunEnd(_, _)
KeyRunEnd(text, i) ==
    IF i <= Len(text) /\ (IsWord(text[i]) \/ text[i] = ".")
    THEN KeyRunEnd(text, i + 1)
    ELSE i

CharAt(text, i, c) == i >= 1 /\ i <= Len(text) /\ text[i] = c

NoMatch == [pos |-> 0, prev |-> <<>>, key |-> <<>>, format |-> <<>>, end |-> 0]

\* %\{([\w\.]+)\} matched with its '%' at index k: the index of the closing '}', or 0.
FieldAt(text, k) ==
    LET e == KeyRunEnd(text, k + 2)
    IN IF CharAt(text, k, "%") /\ CharAt(text, k + 1, "{") /\ e > k + 2 /\ CharAt(text, e, "}")
       THEN e ELSE 0

\* %<([\w\.]+)>\.([\w]) matched with its '%' at index k: the index of the format
\* letter, or 0.
ValueAt(text, k) ==
    LET e == KeyRunEnd(text, k + 2)
    IN IF /\ CharAt(text, k, "%") /\ CharAt(text, k + 1, "<") /\ e > k + 2
          /\ CharAt(text, e, ">") /\ CharAt(text, e + 1, ".")
          /\ e + 2 <= Len(text) /\ IsWord(text[e + 2])
       THEN e + 2 ELSE 0

\* fieldPattern ([^%]|^)%\{([\w\.]+)\} matched at index p of a search that starts
\* at index from: the guard is one character other than '%', or the start of the
\* searched range.
FieldMatchAt(text, from, p) ==
    IF text[p] # "%" /\ FieldAt(text, p + 1) # 0
    THEN [pos |-> p, prev |-> <<text[p]>>, format |-> <<>>,
          key |-> SubSeq(text, p + 3, FieldAt(text, p + 1) - 1),
          end |-> FieldAt(text, p + 1)]
    ELSE IF p = from /\ FieldAt(text, p) # 0
    THEN [pos |-> p, prev |-> <<>>, format |-> <<>>,
          key |-> SubSeq(text, p + 2, FieldAt(text, p) - 1),
          end |-> FieldAt(text, p)]
    ELSE NoMatch

\* valuePattern ([^%]|^)%<([\w\.]+)>\.([\w]) matched at index p.
ValueMatchAt(text, from, p) ==
    IF text[p] # "%" /\ ValueAt(text, p + 1) # 0
    THEN [pos |-> p, prev |-> <<text[p]>>,
          key |-> SubSeq(text, p + 3, ValueAt(text, p + 1) - 3),
          format |-> <<text[ValueAt(text, p + 1)]>>,
          end |-> ValueAt(text, p + 1)]
    ELSE IF p = from /\ ValueAt(text, p) # 0
    THEN [pos |-> p, prev |-> <<>>,
          key |-> SubSeq(text, p + 2, ValueAt(text, p) - 3),
          format |-> <<text[ValueAt(text, p)]>>,
          end |-> ValueAt(text, p)]
    ELSE NoMatch

\* std::regex_search(searchStart, end, match, fieldPattern): the leftmost match.
RECURSIVE SearchField(_, _, _)
SearchField(text, from, p) ==
    IF p > Len(text) THEN NoMatch
    ELSE IF FieldMatchAt(text, from, p).pos # 0 THEN FieldMatchAt(text, from, p)
    ELSE SearchField(text, from, p + 1)

RECURSIVE SearchValue(_, _, _)
SearchValue(text, from, p) ==
    IF p > Len(text) THEN NoMatch
    ELSE IF ValueMatchAt(text, from, p).pos # 0 THEN ValueMatchAt(text, from, p)
    ELSE SearchValue(text, from, p + 1)

\* A replacement that writes every value, strings included, as JSON text.
FieldTextAsJson(key, params) ==
    IF contains(params, key) THEN dump(params[2][key]) ELSE <<"%","{">> \o key \o <<"}">>  \* "%{"

\* The text a %{key} placeholder is replaced by.
FieldText(key, params) ==
    IF contains(params, key)
    THEN LET value == params[2][key]
         IN IF is_string(value) THEN value[2]
            ELSE IF is_number(value) THEN dump(value)
            ELSE IF is_boolean(value) THEN (IF value[2] THEN <<"t","r","u","e">> ELSE <<"f","a","l","s","e">>)  \* "true", "false"
            ELSE dump(value)
    ELSE <<"%","{">> \o key \o <<"}">>  \* "%{"

\* The text a %<key>.fmt placeholder is replaced by (numbers are integers of at
\* most six digits, which operator<< prints in full for int and double alike).
ValueText(key, format, params) ==
    IF contains(params, key)
    THEN LET value == params[2][key]
         IN IF format = <<"d">> \/ format = <<"i">>
            THEN to_string(IF is_number(value) THEN value[2] ELSE 0)
            ELSE IF format = <<"f">>
            THEN to_string(IF is_number(value) THEN value[2] ELSE 0)
            ELSE IF format = <<"s">>
            THEN (IF is_string(value) THEN value[2] ELSE dump(value))
            ELSE dump(value)
    ELSE <<"%","<">> \o key \o <<">",".">> \o format  \* "%<", ">."

RECURSIVE FieldPass(_, _, _)
FieldPass(text, from, params) ==
    LET match == SearchField(text, from, from)
    IN IF match.pos = 0 THEN SubSeq(text, from, Len(text))
       ELSE SubSeq(text, from, match.pos - 1) \o match.prev
            \o FieldText(match.key, params)
            \o FieldPass(text, match.end + 1, params)

RECURSIVE ValuePass(_, _, _)
ValuePass(text, from, params) ==
    LET match == SearchValue(text, from, from)
    IN IF match.pos = 0 THEN SubSeq(text, from, Len(text))
       ELSE SubSeq(text, from, match.pos - 1) \o match.prev
            \o ValueText(match.key, match.format, params)
            \o ValuePass(text, match.end + 1, params)

interpolate(text, params) ==
    IF ~is_object(params) \/ text = <<>> THEN text
    ELSE ValuePass(FieldPass(text, 1, params), 1, params)

-----------------------------------------------------------------------------
(* Interpolation: the {N} and {} passes over a positional list *)

RECURSIVE DigitRunEnd(_, _)
DigitRunEnd(text, i) ==
    IF i <= Len(text) /\ IsDigit(text[i]) THEN DigitRunEnd(text, i + 1) ELSE i

\* indexPattern \{(\d+)\} matched with its '{' at index k: the index of '}', or 0.
IndexAt(text, k) ==
    LET e == DigitRunEnd(text, k + 1)
    IN IF CharAt(text, k, "{") /\ e > k + 1 /\ CharAt(text, e, "}") THEN e ELSE 0

RECURSIVE SearchIndex(_, _)
SearchIndex(text, p) ==
    IF p > Len(text) THEN 0
    ELSE IF IndexAt(text, p) # 0 THEN p
    ELSE SearchIndex(text, p + 1)

\* emptyBracePattern \{\}: the index of the leftmost match at or after p, or 0.
RECURSIVE SearchEmptyBrace(_, _)
SearchEmptyBrace(text, p) ==
    IF p > Len(text) THEN 0
    ELSE IF CharAt(text, p, "{") /\ CharAt(text, p + 1, "}") THEN p
    ELSE SearchEmptyBrace(text, p + 1)

RECURSIVE StripZeros(_)
StripZeros(digits) ==
    IF Len(digits) > 1 /\ Head(digits) = "0" THEN StripZeros(Tail(digits)) ELSE digits

INT_MAX_DIGITS == <<"2","1","4","7","4","8","3","6","4","7">>  \* "2147483647"

\* Whether std::stoi throws std::out_of_range on a string of decimal digits.
StoiOutOfRange(digits) ==
    LET d == StripZeros(digits)
    IN Len(d) > 10 \/ (Len(d) = 10 /\ StrLess(INT_MAX_DIGITS, d))

\* std::stoi on a string of decimal digits in the range of int.
RECURSIVE stoi(_)
stoi(digits) ==
    IF digits = <<>> THEN 0
    ELSE 10 * stoi(SubSeq(digits, 1, Len(digits) - 1)) + (CharCode[digits[Len(digits)]] - 48)

RECURSIVE IndexPass(_, _, _)
IndexPass(text, from, params) ==
    LET p == SearchIndex(text, from)
        e == IndexAt(text, p)
        digits == SubSeq(text, p + 1, e - 1)
    IN IF p = 0 THEN Return(SubSeq(text, from, Len(text)))
       ELSE IF StoiOutOfRange(digits) THEN Throw("out_of_range")
       ELSE LET index == stoi(StripZeros(digits))
                rest == IndexPass(text, e + 1, params)
            IN IF Threw(rest) THEN rest
               ELSE Return(SubSeq(text, from, p - 1)
                           \o (IF index >= 0 /\ index < Len(params)
                               THEN params[index + 1]
                               ELSE SubSeq(text, p, e))
                           \o rest.s)

RECURSIVE EmptyBracePass(_, _, _, _)
EmptyBracePass(text, from, params, paramIndex) ==
    LET p == SearchEmptyBrace(text, from)
    IN IF p = 0 THEN SubSeq(text, from, Len(text))
       ELSE SubSeq(text, from, p - 1)
            \o (IF paramIndex < Len(params) THEN params[paramIndex + 1] ELSE <<"{","}">>)  \* "{}"
            \o EmptyBracePass(text, p + 2, params,
                              IF paramIndex < Len(params) THEN paramIndex + 1 ELSE paramIndex)

interpolateArray(text, params) ==
    IF params = <<>> \/ text = <<>> THEN Return(text)
    ELSE LET numbered == IndexPass(text, 1, params)
         IN IF Threw(numbered) THEN numbered
            ELSE Return(EmptyBracePass(numbered.s, 1, params, 0))

-----------------------------------------------------------------------------
(* Plural and variant handling *)

\* int count of handlePlural: 1 unless the tree has a numeric "count".
PluralCount(params) ==
    IF contains(params, <<"c","o","u","n","t">>) /\ is_number(params[2][<<"c","o","u","n","t">>])  \* "count"
    THEN params[2][<<"c","o","u","n","t">>][2]  \* "count"
    ELSE 1

\* A chain that tries `other` before the category.
PluralEntryOtherFirst(pluralData, pluralForm, count) ==
    IF contains(pluralData, <<"o","t","h","e","r">>) THEN PointerTo(pluralData[2][<<"o","t","h","e","r">>])  \* "other"
    ELSE IF contains(pluralData, pluralForm) THEN PointerTo(pluralData[2][pluralForm])
    ELSE IF contains(pluralData, to_string(count))
    THEN PointerTo(pluralData[2][to_string(count)])
    ELSE nullptr

\* The member of a plural object that is read for a category and a count: the
\* if / else-if chain shared by handlePlural and handlePluralWithArray.
PluralEntry(pluralData, pluralForm, count) ==
    IF contains(pluralData, pluralForm) THEN PointerTo(pluralData[2][pluralForm])
    ELSE IF contains(pluralData, <<"o","t","h","e","r">>) THEN PointerTo(pluralData[2][<<"o","t","h","e","r">>])  \* "other"
    ELSE IF contains(pluralData, to_string(count))
    THEN PointerTo(pluralData[2][to_string(count)])
    ELSE nullptr

handlePlural(pluralData, locale, params) ==
    IF ~is_object(pluralData) THEN Return(<<"[","p","l","u","r","a","l",":"," ","d","a","t","a"," ","n","o","t"," ","o","b","j","e","c","t","]">>)  \* "[plural: data not object]"
    ELSE LET count == PluralCount(params)
             pluralForm == getPluralForm(locale, count)
             entry == PluralEntry(pluralData, pluralForm, count)
         IN IF entry.found THEN get_string(entry.node)
            ELSE Return(<<"[","p","l","u","r","a","l",":"," ","m","i","s","s","i","n","g"," ","f","o","r","m","]">>)  \* "[plural: missing form]"

handlePluralWithArray(pluralData, locale, count, params) ==
    IF ~is_object(pluralData) THEN Return(<<"[","p","l","u","r","a","l",":"," ","d","a","t","a"," ","n","o","t"," ","o","b","j","e","c","t","]">>)  \* "[plural: data not object]"
    ELSE LET pluralForm == getPluralForm(locale, count)
             entry == PluralEntry(pluralData, pluralForm, count)
         IN IF ~entry.found THEN Return(<<"[","p","l","u","r","a","l",":"," ","m","i","s","s","i","n","g"," ","f","o","r","m","]">>)  \* "[plural: missing form]"
            ELSE LET template_str == get_string(entry.node)
                 IN IF Threw(template_str) THEN template_str
                    ELSE interpolateArray(template_str.s, <<to_string(count)>> \o params)

\* The values a range-for over a json value visits: the members of an object in
\* key order, the elements of an array, nothing for null, the value itself otherwise.
IterationValues(j) ==
    CASE is_object(j) -> LET ks == SortedKeys(DOMAIN j[2]) IN [i \in 1..Len(ks) |-> j[2][ks[i]]]
      [] is_array(j) -> j[2]
      [] j[1] = "null" -> <<>>
      [] OTHER -> <<j>>

RECURSIVE VariantLoop(_, _)
VariantLoop(variantData, values) ==
    IF values = <<>>
    THEN IF contains(variantData, <<"o","t","h","e","r">>) THEN get_string(variantData[2][<<"o","t","h","e","r">>])  \* "other"
         ELSE Return(<<"[","v","a","r","i","a","n","t",":"," ","n","o"," ","m","a","t","c","h","]">>)  \* "[variant: no match]"
    ELSE IF is_string(Head(values)) /\ contains(variantData, Head(values)[2])
    THEN get_string(variantData[2][Head(values)[2]])
    ELSE VariantLoop(variantData, Tail(values))

\* A scan of the parameters from the last to the first.
handleVariantLastFirst(variantData, params) ==
    IF ~is_object(variantData) THEN Return(<<"[","v","a","r","i","a","n","t",":"," ","d","a","t","a"," ","n","o","t"," ","o","b","j","e","c","t","]">>)  \* "[variant: data not object]"
    ELSE VariantLoop(variantData, Reverse(IterationValues(params)))

handleVariant(variantData, params) ==
    IF ~is_object(variantData) THEN Return(<<"[","v","a","r","i","a","n","t",":"," ","d","a","t","a"," ","n","o","t"," ","o","b","j","e","c","t","]">>)  \* "[variant: data not object]"
    ELSE VariantLoop(variantData, IterationValues(params))

-----------------------------------------------------------------------------
(* The translation resolver *)

\* interpolate applied to the outcome of a handler: an exception passes through.
Interpolated(r, params) == IF Threw(r) THEN r ELSE Return(interpolate(r.s, params))

\* A dispatch that takes an object to plural handling only for a numeric count.
localizedTranslateNumericCount(key, locale, params) ==
    LET translationData == getTranslationData(key, locale)
    IN IF ~translationData.found THEN Return(<<>>)
       ELSE IF is_string(translationData.node)
       THEN Return(interpolate(translationData.node[2], params))
       ELSE IF is_object(translationData.node)
       THEN IF contains(params, <<"c","o","u","n","t">>) /\ is_number(params[2][<<"c","o","u","n","t">>])  \* "count"
            THEN Interpolated(handlePlural(translationData.node, locale, params), params)
            ELSE Interpolated(handleVariant(translationData.node, params), params)
       ELSE IF is_array(translationData.node) THEN Return(dump(translationData.node))
       ELSE Return(<<"[","u","n","s","u","p","p","o","r","t","e","d"," ","t","r","a","n","s","l","a","t","i","o","n"," ","t","y","p","e","]">>)  \* "[unsupported translation type]"

localizedTranslate(key, locale, params) ==
    LET translationData == getTranslationData(key, locale)
    IN IF ~translationData.found THEN Return(<<>>)
       ELSE IF is_string(translationData.node)
       THEN Return(interpolate(translationData.node[2], params))
       ELSE IF is_object(translationData.node)
       THEN IF contains(params, <<"c","o","u","n","t">>)  \* "count"
            THEN Interpolated(handlePlural(translationData.node, locale, params), params)
            ELSE Interpolated(handleVariant(translationData.node, params), params)
       ELSE IF is_array(translationData.node) THEN Return(dump(translationData.node))
       ELSE Return(<<"[","u","n","s","u","p","p","o","r","t","e","d"," ","t","r","a","n","s","l","a","t","i","o","n"," ","t","y","p","e","]">>)  \* "[unsupported translation type]"

\* A walk that stops at the first candidate with a node, empty result or not.
RECURSIVE TranslateLoopFirstNode(_, _, _)
TranslateLoopFirstNode(key, fallbacks, params) ==
    IF fallbacks = <<>>
    THEN IF contains(params, <<"d","e","f","a","u","l","t">>) /\ is_string(params[2][<<"d","e","f","a","u","l","t">>])  \* "default"
         THEN Return(interpolate(params[2][<<"d","e","f","a","u","l","t">>][2], params))  \* "default"
         ELSE Return(key)
    ELSE IF getTranslationData(key, Head(fallbacks)).found
    THEN localizedTranslate(key, Head(fallbacks), params)
    ELSE TranslateLoopFirstNode(key, Tail(fallbacks), params)

RECURSIVE TranslateLoop(_, _, _)
TranslateLoop(key, fallbacks, params) ==
    IF fallbacks = <<>>
    THEN IF contains(params, <<"d","e","f","a","u","l","t">>) /\ is_string(params[2][<<"d","e","f","a","u","l","t">>])  \* "default"
         THEN Return(interpolate(params[2][<<"d","e","f","a","u","l","t">>][2], params))  \* "default"
         ELSE Return(key)
    ELSE LET translation == localizedTranslate(key, Head(fallbacks), params)
         IN IF Threw(translation) \/ translation.s # <<>> THEN translation
            ELSE TranslateLoop(key, Tail(fallbacks), params)

translate(key, params) ==
    IF key = <<>> THEN Return(<<>>)
    ELSE LET searchLocales ==
                 IF contains(params, <<"l","o","c","a","l","e">>) /\ is_string(params[2][<<"l","o","c","a","l","e">>])  \* "locale"
                 THEN <<params[2][<<"l","o","c","a","l","e">>][2]>> \o locales  \* "locale"
                 ELSE locales
         IN TranslateLoop(key, getFallbacks(searchLocales), params)

\* The first member of a non-empty object: *translationData->begin().
FirstMember(j) == j[2][SortedKeys(DOMAIN j[2])[1]]

RECURSIVE TrLoop(_, _, _)
TrLoop(key, fallbacks, params) ==
    IF fallbacks = <<>> THEN Return(key)
    ELSE LET translationData == getTranslationData(key, Head(fallbacks))
             node == translationData.node
         IN IF ~translationData.found THEN TrLoop(key, Tail(fallbacks), params)
            ELSE IF is_string(node) THEN interpolateArray(node[2], params)
            ELSE IF is_object(node) /\ contains(node, <<"o","t","h","e","r">>)  \* "other"
            THEN LET text == get_string(node[2][<<"o","t","h","e","r">>])  \* "other"
                 IN IF Threw(text) THEN text ELSE interpolateArray(text.s, params)
            ELSE IF is_object(node) /\ DOMAIN node[2] # {}
            THEN LET text == get_string(FirstMember(node))
                 IN IF Threw(text) THEN text ELSE interpolateArray(text.s, params)
            ELSE TrLoop(key, Tail(fallbacks), params)

tr(key, params) ==
    IF key = <<>> THEN Return(<<>>)
    ELSE TrLoop(key, getFallbacks(locales), params)

RECURSIVE TrPluralLoop(_, _, _, _)
TrPluralLoop(key, fallbacks, count, params) ==
    IF fallbacks = <<>> THEN Return(key)
    ELSE LET translationData == getTranslationData(key, Head(fallbacks))
             node == translationData.node
         IN IF ~translationData.found THEN TrPluralLoop(key, Tail(fallbacks), count, params)
            ELSE IF is_object(node)
            THEN handlePluralWithArray(node, Head(fallbacks), count, params)
            ELSE IF is_string(node)
            THEN interpolateArray(node[2], <<to_string(count)>> \o params)
            ELSE TrPluralLoop(key, Tail(fallbacks), count, params)

trPlural(key, count, params) ==
    IF key = <<>> THEN Return(<<>>)
    ELSE TrPluralLoop(key, getFallbacks(locales), count, params)

keyExists(key) ==
    IF locales = <<>> THEN FALSE
    ELSE LET fallbacks == getFallbacks(locales)
         IN \E i \in 1..Len(fallbacks) : getTranslationData(key, fallbacks[i]).found

-----------------------------------------------------------------------------
(* FormatConfig and configure *)

\* CurrencyConfig{}
DefaultCurrencyConfig ==
    [symbol |-> <<"X","X","X">>, name |-> <<"C","u","r","r","e","n","c","y">>, short_name |-> <<"X","X","X">>,  \* "XXX", "Currency"
     decimal_symbol |-> <<".">>, thousand_separator |-> <<" ">>, fract_digits |-> 2,
     positive_symbol |-> <<>>, negative_symbol |-> <<"-">>,
     positive_format |-> <<"%","c"," ","%","p","%","q">>, negative_format |-> <<"%","c"," ","%","p","%","q">>]  \* "%c %p%q"

\* NumberConfig{}
DefaultNumberConfig ==
    [decimal_symbol |-> <<".">>, thousand_separator |-> <<" ">>, fract_digits |-> 2,
     positive_symbol |-> <<>>, negative_symbol |-> <<"-">>]

\* DateTimeConfig{}
DefaultDateTimeConfig ==
    [long_time |-> <<"%","H",":","%","M",":","%","S">>, short_time |-> <<"%","H",":","%","M">>,  \* "%H:%M:%S", "%H:%M"
     long_date |-> <<"%","B"," ","%","d",","," ","%","Y">>, short_date |-> <<"%","m","/","%","d","/","%","Y">>,  \* "%B %d, %Y", "%m/%d/%Y"
     long_date_time |-> <<"%","B"," ","%","d",","," ","%","Y"," ","%","H",":","%","M",":","%","S">>, short_date_time |-> <<"%","m","/","%","d","/","%","Y"," ","%","H",":","%","M">>]  \* "%B %d, %Y %H:%M:%S", "%m/%d/%Y %H:%M"

\* FormatConfig{}
DefaultFormatConfig ==
    [currency |-> DefaultCurrencyConfig,
     number |-> DefaultNumberConfig,
     date_time |-> DefaultDateTimeConfig,
     short_month_names |-> <<<<"J","a","n">>, <<"F","e","b">>, <<"M","a","r">>, <<"A","p","r">>, <<"M","a","y">>, <<"J","u","n">>,  \* "Jan", "Feb", "Mar", "Apr", "May", "Jun"
                             <<"J","u","l">>, <<"A","u","g">>, <<"S","e","p">>, <<"O","c","t">>, <<"N","o","v">>, <<"D","e","c">>>>,  \* "Jul", "Aug", "Sep", "Oct", "Nov", "Dec"
     long_month_names |-> <<<<"J","a","n","u","a","r","y">>, <<"F","e","b","r","u","a","r","y">>, <<"M","a","r","c","h">>, <<"A","p","r","i","l">>, <<"M","a","y">>,  \* "January", "February", "March", "April", "May"
                            <<"J","u","n","e">>, <<"J","u","l","y">>, <<"A","u","g","u","s","t">>, <<"S","e","p","t","e","m","b","e","r">>, <<"O","c","t","o","b","e","r">>,  \* "June", "July", "August", "September", "October"
                            <<"N","o","v","e","m","b","e","r">>, <<"D","e","c","e","m","b","e","r">>>>,  \* "November", "December"
     short_day_names |-> <<<<"S","u","n">>, <<"M","o","n">>, <<"T","u","e">>, <<"W","e","d">>, <<"T","h","u">>, <<"F","r","i">>, <<"S","a","t">>>>,  \* "Sun", "Mon", "Tue", "Wed", "Thu", "Fri", "Sat"
     long_day_names |-> <<<<"S","u","n","d","a","y">>, <<"M","o","n","d","a","y">>, <<"T","u","e","s","d","a","y">>, <<"W","e","d","n","e","s","d","a","y">>,  \* "Sunday", "Monday", "Tuesday", "Wednesday"
                          <<"T","h","u","r","s","d","a","y">>, <<"F","r","i","d","a","y">>, <<"S","a","t","u","r","d","a","y">>>>]  \* "Thursday", "Friday", "Saturday"

\* The assignments of configure to the members of the three sub-configs, in the
\* order of the code; int marks the members read with get<int>().
ScalarSteps ==
    <<
        [section |-> "currency", sectionKey |-> <<"c","u","r","r","e","n","c","y">>, field |-> "symbol", fieldKey |-> <<"s","y","m","b","o","l">>, int |-> FALSE],  \* "currency", "symbol"
        [section |-> "currency", sectionKey |-> <<"c","u","r","r","e","n","c","y">>, field |-> "name", fieldKey |-> <<"n","a","m","e">>, int |-> FALSE],  \* "currency", "name"
        [section |-> "currency", sectionKey |-> <<"c","u","r","r","e","n","c","y">>, field |-> "short_name", fieldKey |-> <<"s","h","o","r","t","_","n","a","m","e">>, int |-> FALSE],  \* "currency", "short_name"
        [section |-> "currency", sectionKey |-> <<"c","u","r","r","e","n","c","y">>, field |-> "decimal_symbol", fieldKey |-> <<"d","e","c","i","m","a","l","_","s","y","m","b","o","l">>, int |-> FALSE],  \* "currency", "decimal_symbol"
        [section |-> "currency", sectionKey |-> <<"c","u","r","r","e","n","c","y">>, field |-> "thousand_separator", fieldKey |-> <<"t","h","o","u","s","a","n","d","_","s","e","p","a","r","a","t","o","r">>, int |-> FALSE],  \* "currency", "thousand_separator"
        [section |-> "currency", sectionKey |-> <<"c","u","r","r","e","n","c","y">>, field |-> "fract_digits", fieldKey |-> <<"f","r","a","c","t","_","d","i","g","i","t","s">>, int |-> TRUE],  \* "currency", "fract_digits"
        [section |-> "currency", sectionKey |-> <<"c","u","r","r","e","n","c","y">>, field |-> "positive_symbol", fieldKey |-> <<"p","o","s","i","t","i","v","e","_","s","y","m","b","o","l">>, int |-> FALSE],  \* "currency", "positive_symbol"
        [section |-> "currency", sectionKey |-> <<"c","u","r","r","e","n","c","y">>, field |-> "negative_symbol", fieldKey |-> <<"n","e","g","a","t","i","v","e","_","s","y","m","b","o","l">>, int |-> FALSE],  \* "currency", "negative_symbol"
        [section |-> "currency", sectionKey |-> <<"c","u","r","r","e","n","c","y">>, field |-> "positive_format", fieldKey |-> <<"p","o","s","i","t","i","v","e","_","f","o","r","m","a","t">>, int |-> FALSE],  \* "currency", "positive_format"
        [section |-> "currency", sectionKey |-> <<"c","u","r","r","e","n","c","y">>, field |-> "negative_format", fieldKey |-> <<"n","e","g","a","t","i","v","e","_","f","o","r","m","a","t">>, int |-> FALSE],  \* "currency", "negative_format"
        [section |-> "number", sectionKey |-> <<"n","u","m","b","e","r">>, field |-> "decimal_symbol", fieldKey |-> <<"d","e","c","i","m","a","l","_","s","y","m","b","o","l">>, int |-> FALSE],  \* "number", "decimal_symbol"
        [section |-> "number", sectionKey |-> <<"n","u","m","b","e","r">>, field |-> "thousand_separator", fieldKey |-> <<"t","h","o","u","s","a","n","d","_","s","e","p","a","r","a","t","o","r">>, int |-> FALSE],  \* "number", "thousand_separator"
        [section |-> "number", sectionKey |-> <<"n","u","m","b","e","r">>, field |-> "fract_digits", fieldKey |-> <<"f","r","a","c","t","_","d","i","g","i","t","s">>, int |-> TRUE],  \* "number", "fract_digits"
        [section |-> "number", sectionKey |-> <<"n","u","m","b","e","r">>, field |-> "positive_symbol", fieldKey |-> <<"p","o","s","i","t","i","v","e","_","s","y","m","b","o","l">>, int |-> FALSE],  \* "number", "positive_symbol"
        [section |-> "number", sectionKey |-> <<"n","u","m","b","e","r">>, field |-> "negative_symbol", fieldKey |-> <<"n","e","g","a","t","i","v","e","_","s","y","m","b","o","l">>, int |-> FALSE],  \* "number", "negative_symbol"
        [section |-> "date_time", sectionKey |-> <<"d","a","t","e","_","t","i","m","e">>, field |-> "long_time", fieldKey |-> <<"l","o","n","g","_","t","i","m","e">>, int |-> FALSE],  \* "date_time", "long_time"
        [section |-> "date_time", sectionKey |-> <<"d","a","t","e","_","t","i","m","e">>, field |-> "short_time", fieldKey |-> <<"s","h","o","r","t","_","t","i","m","e">>, int |-> FALSE],  \* "date_time", "short_time"
        [section |-> "date_time", sectionKey |-> <<"d","a","t","e","_","t","i","m","e">>, field |-> "long_date", fieldKey |-> <<"l","o","n","g","_","d","a","t","e">>, int |-> FALSE],  \* "date_time", "long_date"
        [section |-> "date_time", sectionKey |-> <<"d","a","t","e","_","t","i","m","e">>, field |-> "short_date", fieldKey |-> <<"s","h","o","r","t","_","d","a","t","e">>, int |-> FALSE],  \* "date_time", "short_date"
        [section |-> "date_time", sectionKey |-> <<"d","a","t","e","_","t","i","m","e">>, field |-> "long_date_time", fieldKey |-> <<"l","o","n","g","_","d","a","t","e","_","t","i","m","e">>, int |-> FALSE],  \* "date_time", "long_date_time"
        [section |-> "date_time", sectionKey |-> <<"d","a","t","e","_","t","i","m","e">>, field |-> "short_date_time", fieldKey |-> <<"s","h","o","r","t","_","d","a","t","e","_","t","i","m","e">>, int |-> FALSE]  \* "date_time", "short_date_time"
    >>

\* The four name lists configure replaces, in the order of the code.
NameSteps ==
    <<[field |-> "short_month_names", fieldKey |-> <<"s","h","o","r","t","_","m","o","n","t","h","_","n","a","m","e","s">>],  \* "short_month_names"
      [field |-> "long_month_names", fieldKey |-> <<"l","o","n","g","_","m","o","n","t","h","_","n","a","m","e","s">>],  \* "long_month_names"
      [field |-> "short_day_names", fieldKey |-> <<"s","h","o","r","t","_","d","a","y","_","n","a","m","e","s">>],  \* "short_day_names"
      [field |-> "long_day_names", fieldKey |-> <<"l","o","n","g","_","d","a","y","_","n","a","m","e","s">>]>>  \* "long_day_names"

\* The outcome of a step that changes a config: the config, and the exception
\* that ended the step ("" for none).
Done(cfg) == [cfg |-> cfg, exc |-> ""]
Failed(cfg, kind) == [cfg |-> cfg, exc |-> kind]

\* json::get<int>(): numbers and booleans convert, every other type is type_error 302.
RECURSIVE ApplyScalars(_, _, _)
ApplyScalars(cfg, formats, steps) ==
    IF steps = <<>> THEN Done(cfg)
    ELSE LET st == Head(steps)
             present == /\ contains(formats, st.sectionKey)
                        /\ is_object(formats[2][st.sectionKey])
                        /\ contains(formats[2][st.sectionKey], st.fieldKey)
             value == formats[2][st.sectionKey][2][st.fieldKey]
         IN IF ~present THEN ApplyScalars(cfg, formats, Tail(steps))
            ELSE IF st.int /\ is_number(value)
            THEN ApplyScalars([cfg EXCEPT ![st.section][st.field] = value[2]],
                              formats, Tail(steps))
            ELSE IF st.int /\ is_boolean(value)
            THEN ApplyScalars([cfg EXCEPT ![st.section][st.field] = IF value[2] THEN 1 ELSE 0],
                              formats, Tail(steps))
            ELSE IF ~st.int /\ is_string(value)
            THEN ApplyScalars([cfg EXCEPT ![st.section][st.field] = value[2]],
                              formats, Tail(steps))
            ELSE Failed(cfg, "type_error")

\* clear(), then push_back(item.get<std::string>()) for every item of the array.
RECURSIVE PushNames(_, _, _)
PushNames(cfg, field, items) ==
    IF items = <<>> THEN Done(cfg)
    ELSE IF ~is_string(Head(items)) THEN Failed(cfg, "type_error")
    ELSE PushNames([cfg EXCEPT ![field] = Append(@, Head(items)[2])], field, Tail(items))

RECURSIVE ApplyNames(_, _, _)
ApplyNames(cfg, formats, steps) ==
    IF steps = <<>> THEN Done(cfg)
    ELSE LET st == Head(steps)
         IN IF contains(formats, st.fieldKey) /\ is_array(formats[2][st.fieldKey])
            THEN LET pushed == PushNames([cfg EXCEPT ![st.field] = <<>>], st.field,
                                         formats[2][st.fieldKey][2])
                 IN IF pushed.exc # "" THEN pushed
                    ELSE ApplyNames(pushed.cfg, formats, Tail(steps))
            ELSE ApplyNames(cfg, formats, Tail(steps))

\* configure(formats) run on the config cfg (the member defaultConfig).
configure(cfg, formats) ==
    IF ~is_object(formats) THEN Done(cfg)
    ELSE LET scalars == ApplyScalars(cfg, formats, ScalarSteps)
         IN IF scalars.exc # "" THEN scalars
            ELSE ApplyNames(scalars.cfg, formats, NameSteps)

-----------------------------------------------------------------------------
(* Loading *)

Put(f, k, val) == [x \in (DOMAIN f) \cup {k} |-> IF x = k THEN val ELSE f[x]]

\* The members of the instance a load changes, and the exception that ended it.
Members3(data, configs, config, exc) ==
    [data |-> data, configs |-> configs, config |-> config, exc |-> exc]

\* The body of loadLocale once the file is open and parsed into data.
loadLocaleParsed(st, localeStr, data) ==
    LET stored == Put(st.data, localeStr, data)
    IN IF contains(data, <<"_","f","o","r","m","a","t","s">>) /\ is_object(data[2][<<"_","f","o","r","m","a","t","s">>])  \* "_formats"
       THEN LET configured == configure(st.config, data[2][<<"_","f","o","r","m","a","t","s">>])  \* "_formats"
            IN IF configured.exc # ""
               THEN Members3(stored, st.configs, configured.cfg, configured.exc)
               ELSE Members3(Put(st.data, localeStr, erase(data, <<"_","f","o","r","m","a","t","s">>)),  \* "_formats"
                             Put(st.configs, localeStr, configured.cfg),
                             configured.cfg, "")
       ELSE Members3(stored, st.configs, st.config, "")

\* A file of loadLocale: whether it opens, whether json::parse accepts it, and
\* the document it parses to.
File(opens, parses, data) == [opens |-> opens, parses |-> parses, data |-> data]

loadLocale(st, locale, file) ==
    IF ~file.opens THEN [st EXCEPT !.exc = "I18NError"]
    ELSE IF ~file.parses THEN [st EXCEPT !.exc = "I18NError"]
    ELSE loadLocaleParsed(st, locale, file.data)

\* The lambda recursiveLoad of load, and its loop over the members of data.
RECURSIVE recursiveLoad(_, _, _)
RECURSIVE LoadMembers(_, _, _, _)
recursiveLoad(st, currentContext, data) ==
    LET formats ==
            IF /\ contains(data, <<"_","f","o","r","m","a","t","s">>) /\ is_object(data[2][<<"_","f","o","r","m","a","t","s">>])  \* "_formats"
               /\ currentContext # <<>>
            THEN LET configured == configure(st.config, data[2][<<"_","f","o","r","m","a","t","s">>])  \* "_formats"
                 IN IF configured.exc # ""
                    THEN Members3(st.data, st.configs, configured.cfg, configured.exc)
                    ELSE Members3(st.data, Put(st.configs, currentContext, configured.cfg),
                                  configured.cfg, "")
            ELSE st
    IN IF formats.exc # "" THEN formats
       ELSE IF is_object(data)
       THEN LoadMembers(formats, currentContext, data, SortedKeys(DOMAIN data[2]))
       ELSE IF data[1] = "null" \/ (is_array(data) /\ data[2] = <<>>) THEN formats
       ELSE [formats EXCEPT !.exc = "invalid_iterator"]
LoadMembers(st, currentContext, data, keys) ==
    IF keys = <<>> THEN st
    ELSE LET key == Head(keys)
             value == data[2][key]
             composedKey == IF currentContext = <<>> THEN key
                            ELSE currentContext \o <<".">> \o key
         IN IF key = <<"_","f","o","r","m","a","t","s">> THEN LoadMembers(st, currentContext, data, Tail(keys))  \* "_formats"
            ELSE IF is_string(value) \/ is_array(value)
            THEN LoadMembers([st EXCEPT !.data = Put(st.data, composedKey, value)],
                             currentContext, data, Tail(keys))
            ELSE IF is_object(value)
            THEN LET inner == recursiveLoad(st, composedKey, value)
                 IN IF inner.exc # "" THEN inner
                    ELSE LoadMembers(inner, currentContext, data, Tail(keys))
            ELSE LoadMembers(st, currentContext, data, Tail(keys))

load(st, data) == recursiveLoad(st, <<>>, data)

\* void I18N::reset(): the members afterwards.
ResetLocales == <<>>
ResetFallbackLocale == <<"e","n">>  \* "en"

-----------------------------------------------------------------------------
(* The inputs the operations are called with *)

en == <<"e","n">>  \* "en"
enUS == <<"e","n","-","U","S">>  \* "en-US"
ru == <<"r","u">>  \* "ru"

\* The locale file of a base locale.
BaseData ==
    Obj(<<Pair(<<"h","e","l","l","o">>, JString(<<"H","e","l","l","o"," ","%","{","n","a","m","e","}","!">>)),  \* "hello", "Hello %{name}!"
          Pair(<<"i","t","e","m","s">>, Obj(<<Pair(<<"o","n","e">>, JString(<<"{","0","}"," ","i","t","e","m">>)),  \* "items", "one", "{0} item"
                                 Pair(<<"o","t","h","e","r">>, JString(<<"%","{","c","o","u","n","t","}"," ","i","t","e","m","s">>))>>)),  \* "other", "%{count} items"
          Pair(<<"m","e","n","u">>, Obj(<<Pair(<<"o","p","e","n">>, JString(<<"O","p","e","n"," ","{","}">>))>>)),  \* "menu", "open", "Open {}"
          Pair(<<"t","a","g","s">>, JArray(<<JString(<<"a">>), JString(<<"%","{","n","a","m","e","}">>)>>)),  \* "tags", "%{name}"
          Pair(<<"g","r","e","e","t","i","n","g">>, Obj(<<Pair(<<"o","n","e">>, JString(<<"H","e","l","l","o",","," ","f","r","i","e","n","d","!">>)),  \* "greeting", "one", "Hello, friend!"
                                    Pair(<<"o","t","h","e","r">>, JString(<<"H","e","l","l","o",","," ","{","}"," ","f","r","i","e","n","d","s","!">>))>>)),  \* "other", "Hello, {} friends!"
          Pair(<<"i","n","b","o","x">>, Obj(<<Pair(<<"o","n","e">>, JString(<<"{","1","}"," ","h","a","s"," ","{","0","}"," ","m","e","s","s","a","g","e">>)),  \* "inbox", "one", "{1} has {0} message"
                                 Pair(<<"o","t","h","e","r">>, JString(<<"{","1","}"," ","h","a","s"," ","{","}"," ","m","e","s","s","a","g","e","s"," ","f","r","o","m"," ","{","2","}">>))>>))>>)  \* "other", "{1} has {} messages from {2}"

\* The locale file of a regional locale: an empty string, plural objects whose
\* entries are not strings, a variant object, an empty object and a number.
RegionData ==
    Obj(<<Pair(<<"h","e","l","l","o">>, JString(<<>>)),  \* "hello"
          Pair(<<"i","t","e","m","s">>, Obj(<<Pair(<<"o","n","e">>, JNumber(1)),  \* "items", "one"
                                 Pair(<<"t","w","o">>, JString(<<"{","}"," ","p","a","i","r">>))>>)),  \* "two", "{} pair"
          Pair(<<"m","e","n","u">>, Obj(<<Pair(<<"o","p","e","n">>, EmptyObject)>>)),  \* "menu", "open"
          Pair(<<"t","o","n","e">>, Obj(<<Pair(<<"f","o","r","m","a","l">>, JString(<<"G","o","o","d"," ","d","a","y">>)),  \* "tone", "formal", "Good day"
                                Pair(<<"o","t","h","e","r">>, JString(<<"H","i"," ","%","{","n","a","m","e","}">>))>>)),  \* "other", "Hi %{name}"
          Pair(<<"t","a","g","s">>, JNumber(7))>>)  \* "tags"

BaseFile == File(TRUE, TRUE, BaseData)
RegionFile == File(TRUE, TRUE, RegionData)
UnreadableFile == File(FALSE, FALSE, JNull)
MalformedFile == File(TRUE, FALSE, JNull)

\* The document of the load example: {"en": {"greeting": {"hello": "Hi"}}}.
NestedDocument ==
    Obj(<<Pair(en, Obj(<<Pair(<<"g","r","e","e","t","i","n","g">>,  \* "greeting"
                              Obj(<<Pair(<<"h","e","l","l","o">>, JString(<<"H","i">>))>>))>>))>>)  \* "hello", "Hi"

\* Locales that are set active, locales that files are loaded for, and lists.
LocaleIds == {en, enUS, ru}
LoadedIds == {en, enUS}
LocaleLists == {<<>>, <<ru, enUS>>}
FallbackIds == {en, ru, <<>>}
Files == <<BaseFile, RegionFile, UnreadableFile, MalformedFile>>
Documents == <<NestedDocument>>

Keys == {<<"h","e","l","l","o">>, <<"i","t","e","m","s">>, <<"m","e","n","u",".","o","p","e","n">>, <<"t","o","n","e">>, <<"t","a","g","s">>,  \* "hello", "items", "menu.open", "tone", "tags"
         <<"g","r","e","e","t","i","n","g",".","h","e","l","l","o">>, <<>>}  \* "greeting.hello"

ParamTrees ==
    <<EmptyObject,
     Obj(<<Pair(<<"c","o","u","n","t">>, JNumber(1)), Pair(<<"n","a","m","e">>, JString(<<"B","o","b">>))>>),  \* "count", "name", "Bob"
     Obj(<<Pair(<<"c","o","u","n","t">>, JNumber(5)), Pair(<<"d","e","f","a","u","l","t">>, JString(<<"n","o","n","e">>))>>),  \* "count", "default", "none"
     Obj(<<Pair(<<"d","e","f","a","u","l","t">>, JString(<<"N","o"," ","e","n","t","r","y",","," ","%","{","n","a","m","e","}">>)),  \* "default", "No entry, %{name}"
           Pair(<<"n","a","m","e">>, JString(<<"A","l">>))>>),  \* "name", "Al"
     Obj(<<Pair(<<"l","o","c","a","l","e">>, JString(enUS)), Pair(<<"t","o","n","e">>, JString(<<"f","o","r","m","a","l">>))>>)>>  \* "locale", "tone", "formal"

ParamLists == {<<>>, <<<<"B","o","b">>>>}  \* "Bob"
PluralCalls == <<[count |-> 1, params |-> <<>>], [count |-> 5, params |-> <<<<"B","o","b">>>>]>>  \* "Bob"

-----------------------------------------------------------------------------
(* The operations *)

Instance == Members3(localesData, formatConfigs, defaultConfig, "")

\* The library is single-threaded and synchronous: an operation is called when no
\* call is in progress, and its outcome stays in call until the caller resumes.
\* Next states the guard call = Idle ahead of each operation's inputs as well.
Idle == [op |-> "idle"]

\* The last two steps of the sequence load(data), setLocale(locale), kept for as
\* long as no other operation changed the instance.
NoLoad == <<>>

Init ==
    /\ locales = ResetLocales
    /\ fallbackLocale = ResetFallbackLocale
    /\ localesData = <<>>
    /\ formatConfigs = <<>>
    /\ defaultConfig = DefaultFormatConfig
    /\ recent = NoLoad
    /\ call = Idle

\* A reset that clears the locales and the data and keeps the format configs.
ResetKeepingConfigs ==
    /\ call = Idle
    /\ locales' = ResetLocales
    /\ localesData' = <<>>
    /\ fallbackLocale' = ResetFallbackLocale
    /\ recent' = NoLoad
    /\ call' = [op |-> "reset"]
    /\ UNCHANGED <<formatConfigs, defaultConfig>>

Reset ==
    /\ call = Idle
    /\ locales' = ResetLocales
    /\ localesData' = <<>>
    /\ formatConfigs' = <<>>
    /\ defaultConfig' = DefaultFormatConfig
    /\ fallbackLocale' = ResetFallbackLocale
    /\ recent' = NoLoad
    /\ call' = [op |-> "reset"]

LoadLocale(locale, file) ==
    LET after == loadLocale(Instance, locale, file)
    IN /\ call = Idle
       /\ localesData' = after.data
       /\ formatConfigs' = after.configs
       /\ defaultConfig' = after.config
       /\ recent' = NoLoad
       /\ call' = [op |-> "loadLocale", locale |-> locale, file |-> file, exc |-> after.exc]
       /\ UNCHANGED <<locales, fallbackLocale>>

Load(data) ==
    LET after == load(Instance, data)
    IN /\ call = Idle
       /\ localesData' = after.data
       /\ formatConfigs' = after.configs
       /\ defaultConfig' = after.config
       /\ recent' = IF after.exc = "" THEN <<[op |-> "load", data |-> data]>> ELSE NoLoad
       /\ call' = [op |-> "load", data |-> data, exc |-> after.exc]
       /\ UNCHANGED <<locales, fallbackLocale>>

SetLocale(locale) ==
    /\ call = Idle
    /\ locales' = <<locale>>
    /\ defaultConfig' = IF locale \in DOMAIN formatConfigs THEN formatConfigs[locale]
                        ELSE defaultConfig
    /\ recent' = IF recent = NoLoad THEN NoLoad
                 ELSE <<recent[1], [op |-> "setLocale", locale |-> locale]>>
    /\ call' = [op |-> "setLocale", locale |-> locale]
    /\ UNCHANGED <<fallbackLocale, localesData, formatConfigs>>

SetLocales(newLocales) ==
    /\ call = Idle
    /\ locales' = newLocales
    /\ defaultConfig' = IF newLocales # <<>> /\ newLocales[1] \in DOMAIN formatConfigs
                        THEN formatConfigs[newLocales[1]]
                        ELSE defaultConfig
    /\ recent' = NoLoad
    /\ call' = [op |-> "setLocales", locales |-> newLocales]
    /\ UNCHANGED <<fallbackLocale, localesData, formatConfigs>>

SetFallbackLocale(locale) ==
    /\ call = Idle
    /\ fallbackLocale' = locale
    /\ recent' = NoLoad
    /\ call' = [op |-> "setFallbackLocale", locale |-> locale]
    /\ UNCHANGED <<locales, localesData, formatConfigs, defaultConfig>>

Translate(key, params) ==
    /\ call = Idle
    /\ call' = [op |-> "translate", key |-> key, params |-> params,
                out |-> translate(key, params)]
    /\ UNCHANGED <<locales, fallbackLocale, localesData, formatConfigs, defaultConfig, recent>>

Tr(key, params) ==
    /\ call = Idle
    /\ call' = [op |-> "tr", key |-> key, list |-> params, out |-> tr(key, params)]
    /\ UNCHANGED <<locales, fallbackLocale, localesData, formatConfigs, defaultConfig, recent>>

TrPlural(key, count, params) ==
    /\ call = Idle
    /\ call' = [op |-> "trPlural", key |-> key, count |-> count, list |-> params,
                out |-> trPlural(key, count, params)]
    /\ UNCHANGED <<locales, fallbackLocale, localesData, formatConfigs, defaultConfig, recent>>

KeyExists(key) ==
    /\ call = Idle
    /\ call' = [op |-> "keyExists", key |-> key, yes |-> keyExists(key)]
    /\ UNCHANGED <<locales, fallbackLocale, localesData, formatConfigs, defaultConfig, recent>>

Resume ==
    /\ call # Idle
    /\ call' = Idle
    /\ UNCHANGED <<locales, fallbackLocale, localesData, formatConfigs, defaultConfig, recent>>

Next ==
    \/ Resume
    \/ call = Idle /\ Reset
    \/ call = Idle /\ \E locale \in LoadedIds, i \in DOMAIN Files : LoadLocale(locale, Files[i])
    \/ call = Idle /\ \E i \in DOMAIN Documents : Load(Documents[i])
    \/ call = Idle /\ \E locale \in LocaleIds : SetLocale(locale)
    \/ call = Idle /\ \E newLocales \in LocaleLists : SetLocales(newLocales)
    \/ call = Idle /\ \E locale \in FallbackIds : SetFallbackLocale(locale)
    \/ call = Idle /\ \E key \in Keys, i \in DOMAIN ParamTrees : Translate(key, ParamTrees[i])
    \/ call = Idle /\ \E key \in Keys, params \in ParamLists : Tr(key, params)
    \/ call = Idle /\ \E key \in Keys, i \in DOMAIN PluralCalls :
           TrPlural(key, PluralCalls[i].count, PluralCalls[i].params)
    \/ call = Idle /\ \E key \in Keys : KeyExists(key)

Spec == Init /\ [][Next]_vars

-----------------------------------------------------------------------------
(* The private helpers, applied to inputs drawn from bounded sets *)

\* A locale file with a three-category plural object and no `other`, a plural
\* object keyed by a literal count only, and an empty plural object.
RuData ==
    Obj(<<Pair(<<"i","t","e","m","s">>, Obj(<<Pair(<<"o","n","e">>, JString(<<"{","0","}"," ","o","n","e">>)),  \* "items", "one", "{0} one"
                                 Pair(<<"f","e","w">>, JString(<<"{","0","}"," ","f","e","w">>)),  \* "few", "{0} few"
                                 Pair(<<"m","a","n","y">>, JString(<<"%","{","c","o","u","n","t","}"," ","m","a","n","y">>))>>)),  \* "many", "%{count} many"
          Pair(<<"s","i","z","e","s">>, Obj(<<Pair(<<"7">>, JString(<<"s","e","v","e","n">>))>>)),  \* "sizes", "seven"
          Pair(<<"n","o","n","e">>, EmptyObject)>>)  \* "none"

RuFile == File(TRUE, TRUE, RuData)

fr == <<"f","r">>  \* "fr"

\* The instance after loadLocale("en", ...), loadLocale("en-US", ...) and
\* loadLocale("ru", ...) on a fresh instance.
Loaded ==
    loadLocale(loadLocale(loadLocale(Members3(<<>>, <<>>, DefaultFormatConfig, ""),
                                     en, BaseFile),
                          enUS, RegionFile),
               ru, RuFile)

HelperLocaleLists == {<<>>, <<fr>>, <<enUS, ru>>}

MaxRequested == 2
RequestIds == {en, enUS, <<"e","n","-","U","S","-","N","Y">>, ru, <<>>, <<"-","e","n">>, <<"e","n","-","-","G","B">>}  \* "en-US-NY", "-en", "en--GB"
RequestLists == UNION {[1..n -> RequestIds] : n \in 0..MaxRequested}

MaxCount == 125
PluralLocales == {en, enUS, <<"d","e">>, <<"e","o">>, ru, <<"r","u","-","R","U">>, <<"u","k">>, <<"b","e">>, <<"h","r">>,  \* "de", "eo", "ru-RU", "uk", "be", "hr"
                  <<"s","r">>, <<"b","s">>, <<"s","h">>, <<"p","l">>, <<"p","l","-","P","L">>, <<"c","s">>, <<"s","k">>,  \* "sr", "bs", "sh", "pl", "pl-PL", "cs", "sk"
                  fr, <<"f","r","-","C","A">>, <<"f","f">>, <<"k","a","b">>, <<"a","r">>, <<"a","r","-","E","G">>,  \* "fr-CA", "ff", "kab", "ar", "ar-EG"
                  <<"x","x">>, <<"x","-","r","u">>, <<"j","a">>, <<>>}  \* "xx", "x-ru", "ja"

\* Plural data handed to handlePlural and handlePluralWithArray.
PluralData ==
    <<RuData[2][<<"i","t","e","m","s">>], RuData[2][<<"s","i","z","e","s">>], RuData[2][<<"n","o","n","e">>],  \* "items", "sizes", "none"
      BaseData[2][<<"i","t","e","m","s">>], RegionData[2][<<"i","t","e","m","s">>],  \* "items"
      Obj(<<Pair(<<"5">>, JString(<<"f","i","v","e">>)), Pair(<<"o","t","h","e","r">>, JString(<<"{","}"," ","m","o","r","e">>))>>),  \* "five", "other", "{} more"
      JString(<<"i","t","e","m","s">>), JNumber(7), JArray(<<JString(<<"o","n","e">>)>>), JNull>>  \* "items", "one"

PluralParams ==
    <<EmptyObject,
      Obj(<<Pair(<<"c","o","u","n","t">>, JNumber(1))>>),  \* "count"
      Obj(<<Pair(<<"c","o","u","n","t">>, JNumber(2))>>),  \* "count"
      Obj(<<Pair(<<"c","o","u","n","t">>, JNumber(5))>>),  \* "count"
      Obj(<<Pair(<<"c","o","u","n","t">>, JNumber(7))>>),  \* "count"
      Obj(<<Pair(<<"c","o","u","n","t">>, JString(<<"5">>))>>)>>  \* "count"

PluralCounts == {0, 1, 2, 5, 7, 21}

\* Variant data and parameter trees handed to handleVariant.
VariantData ==
    <<RegionData[2][<<"t","o","n","e">>],  \* "tone"
      Obj(<<Pair(<<"c","a","s","u","a","l">>, JString(<<"H","e","y">>)), Pair(<<"f","o","r","m","a","l">>, JString(<<"G","o","o","d"," ","d","a","y">>))>>),  \* "casual", "Hey", "formal", "Good day"
      Obj(<<Pair(<<"f","o","r","m","a","l">>, JNumber(3)), Pair(<<"o","t","h","e","r">>, JNull)>>),  \* "formal", "other"
      EmptyObject, JString(<<"f","o","r","m","a","l">>), JArray(<<>>)>>  \* "formal"

VariantParams ==
    <<EmptyObject,
      Obj(<<Pair(<<"a">>, JString(<<"c","a","s","u","a","l">>)), Pair(<<"b">>, JString(<<"f","o","r","m","a","l">>))>>),  \* "casual", "formal"
      Obj(<<Pair(<<"a">>, JString(<<"f","o","r","m","a","l">>)), Pair(<<"b">>, JString(<<"c","a","s","u","a","l">>))>>),  \* "formal", "casual"
      Obj(<<Pair(<<"a">>, JNumber(3)), Pair(<<"b">>, JString(<<"n","o","n","e">>)),  \* "none"
            Pair(<<"c">>, JString(<<"f","o","r","m","a","l">>))>>),  \* "formal"
      Obj(<<Pair(<<"n","a","m","e">>, JString(<<"B","o","b">>))>>),  \* "name", "Bob"
      JArray(<<JString(<<"n","o","n","e">>), JString(<<"c","a","s","u","a","l">>)>>),  \* "none", "casual"
      JString(<<"f","o","r","m","a","l">>), JNull>>  \* "formal"

HelperKeys == {<<"h","e","l","l","o">>, <<"i","t","e","m","s">>, <<"s","i","z","e","s">>, <<"n","o","n","e">>, <<"m","e","n","u",".","o","p","e","n">>, <<"t","o","n","e">>,  \* "hello", "items", "sizes", "none", "menu.open", "tone"
               <<"t","a","g","s">>, <<"m","e","n","u">>, <<"h","e","l","l","o",".","x">>, <<>>}  \* "tags", "menu", "hello.x"

HelperTrees ==
    <<EmptyObject,
      Obj(<<Pair(<<"c","o","u","n","t">>, JNumber(0))>>),  \* "count"
      Obj(<<Pair(<<"c","o","u","n","t">>, JNumber(1)), Pair(<<"n","a","m","e">>, JString(<<"B","o","b">>))>>),  \* "count", "name", "Bob"
      Obj(<<Pair(<<"c","o","u","n","t">>, JNumber(5)), Pair(<<"d","e","f","a","u","l","t">>, JString(<<"n","o","n","e">>))>>),  \* "count", "default", "none"
      Obj(<<Pair(<<"c","o","u","n","t">>, JNumber(7)), Pair(<<"l","o","c","a","l","e">>, JString(ru))>>),  \* "count", "locale"
      Obj(<<Pair(<<"c","o","u","n","t">>, JString(<<"m","a","n","y">>)), Pair(<<"t","o","n","e">>, JString(<<"f","o","r","m","a","l">>))>>),  \* "count", "many", "tone", "formal"
      Obj(<<Pair(<<"n","a","m","e">>, JString(<<"A","l">>)), Pair(<<"t","o","n","e">>, JString(<<"f","o","r","m","a","l">>))>>)>>  \* "name", "Al", "tone", "formal"

HelperPluralCalls ==
    <<[count |-> 0, params |-> <<>>], [count |-> 1, params |-> <<<<"B","o","b">>>>],  \* "Bob"
      [count |-> 2, params |-> <<>>], [count |-> 7, params |-> <<>>]>>

HelperInit ==
    /\ locales \in HelperLocaleLists
    /\ fallbackLocale \in FallbackIds
    /\ localesData = Loaded.data
    /\ formatConfigs = Loaded.configs
    /\ defaultConfig = Loaded.config
    /\ recent = NoLoad
    /\ call = Idle

Unchanged == UNCHANGED <<locales, fallbackLocale, localesData, formatConfigs, defaultConfig, recent>>

GetFallbacks(requested) ==
    /\ call = Idle
    /\ call' = [op |-> "getFallbacks", requested |-> requested, out |-> getFallbacks(requested)]
    /\ Unchanged

GetPluralForm(locale, count) ==
    /\ call = Idle
    /\ call' = [op |-> "getPluralForm", locale |-> locale, count |-> count,
                out |-> getPluralForm(locale, count)]
    /\ Unchanged

HandlePlural(pluralData, locale, params) ==
    /\ call = Idle
    /\ call' = [op |-> "handlePlural", data |-> pluralData, locale |-> locale,
                params |-> params, out |-> handlePlural(pluralData, locale, params)]
    /\ Unchanged

HandlePluralWithArray(pluralData, locale, count, params) ==
    /\ call = Idle
    /\ call' = [op |-> "handlePluralWithArray", data |-> pluralData, locale |-> locale,
                count |-> count, list |-> params,
                out |-> handlePluralWithArray(pluralData, locale, count, params)]
    /\ Unchanged

HandleVariant(variantData, params) ==
    /\ call = Idle
    /\ call' = [op |-> "handleVariant", data |-> variantData, params |-> params,
                out |-> handleVariant(variantData, params)]
    /\ Unchanged

LocalizedTranslate(key, locale, params) ==
    /\ call = Idle
    /\ call' = [op |-> "localizedTranslate", key |-> key, locale |-> locale,
                params |-> params, out |-> localizedTranslate(key, locale, params)]
    /\ Unchanged

\* Templates and parameter trees for interpolate.
NamedTemplates ==
    {<<>>, <<"p","l","a","i","n">>, <<"%","{","n","a","m","e","}">>, <<"H","i"," ","%","{","n","a","m","e","}","!">>, <<"%","{","a","}","%","{","b","}">>, <<"%","{","a","}"," ","a","n","d"," ","%","{","m","i","s","s","i","n","g","}">>,  \* "plain", "%{name}", "Hi %{name}!", "%{a}%{b}", "%{a} and %{missing}"
     <<"%","%","{","n","a","m","e","}">>, <<"x","%","%","{","a","}","y">>, <<"%","{","a","}","%","%","{","b","}">>, <<"%","{","}">>, <<"%","{","a">>, <<"%","{","a",".","b","}">>, <<"%","<","n",">",".","d">>,  \* "%%{name}", "x%%{a}y", "%{a}%%{b}", "%{}", "%{a", "%{a.b}", "%<n>.d"
     <<"%","{","a","}","%","<","n",">",".","d">>, <<"%","{","n","}"," ","%","{","f","l","a","g","}"," ","%","{","o","b","j","}"," ","%","{","n","u","l","}">>, <<"1","0","0","%"," ","%","{","a","}">>, <<"%","{","a","}","}","%","{","b","}","{">>,  \* "%{a}%<n>.d", "%{n} %{flag} %{obj} %{nul}", "100% %{a}", "%{a}}%{b}{"
     <<"%","{","%","{","a","}","}">>, <<"%","{","a","}">>}  \* "%{%{a}}", "%{a}"

NamedTrees ==
    <<EmptyObject,
      Obj(<<Pair(<<"a">>, JString(<<"A">>)), Pair(<<"b">>, JString(<<"B">>)),
            Pair(<<"n","a","m","e">>, JString(<<"B","o","b">>))>>),  \* "name", "Bob"
      Obj(<<Pair(<<"a">>, JString(<<"%","<","n",">",".","d">>)), Pair(<<"n">>, JNumber(5))>>),  \* "%<n>.d"
      Obj(<<Pair(<<"a">>, JString(<<"%","{","b","}">>)), Pair(<<"b">>, JString(<<"%">>))>>),  \* "%{b}"
      Obj(<<Pair(<<"n">>, JNumber(5)), Pair(<<"f","l","a","g">>, JBool(TRUE)),  \* "flag"
            Pair(<<"o","b","j">>, Obj(<<Pair(<<"k">>, JArray(<<JNumber(1), JString(<<"v">>)>>))>>)),  \* "obj"
            Pair(<<"n","u","l">>, JNull), Pair(<<"a",".","b">>, JString(<<"d","o","t","t","e","d">>))>>),  \* "nul", "a.b", "dotted"
      JArray(<<JString(<<"A">>)>>)>>

\* Templates and positional lists for interpolateArray.
PositionalTemplates ==
    {<<>>, <<"p","l","a","i","n">>, <<"{","0","}">>, <<"{","}">>, <<"{","0","}"," ","a","n","d"," ","{","1","}">>, <<"{","1","}","{","0","}">>, <<"{","}"," ","{","}"," ","{","}">>, <<"{","5","}">>,  \* "plain", "{0}", "{}", "{0} and {1}", "{1}{0}", "{} {} {}", "{5}"
     <<"{","0","}"," ","{","}">>, <<"{","}"," ","{","0","}"," ","{","}">>, <<"{","0","0","1","}">>, <<"{","9","9","9","9","9","9","9","9","9","9","9","}">>, <<"{","2","1","4","7","4","8","3","6","4","8","}">>,  \* "{0} {}", "{} {0} {}", "{001}", "{99999999999}", "{2147483648}"
     <<"{","2","1","4","7","4","8","3","6","4","7","}">>, <<"{","a","}">>, <<"{">>, <<"}","{">>, <<"{"," ","}">>, <<"{","{","0","}","}">>, <<"{","-","1","}">>,  \* "{2147483647}", "{a}", "}{", "{ }", "{{0}}", "{-1}"
     <<"{","1","}"," ","h","a","s"," ","{","}"," ","f","r","o","m"," ","{","2","}">>}  \* "{1} has {} from {2}"

PositionalLists ==
    {<<>>, <<<<"A">>>>, <<<<"A">>, <<"B">>>>, <<<<>>>>, <<<<"A">>, <<"{","}">>>>, <<<<"{","1","}">>, <<"B">>>>,  \* "{}", "{1}"
     <<<<"A">>, <<"B">>, <<"C">>>>}

\* interpolate, with the text its first loop leaves for the second.
Interpolate(text, params) ==
    /\ call = Idle
    /\ call' = [op |-> "interpolate", text |-> text, params |-> params,
                fields |-> IF ~is_object(params) \/ text = <<>> THEN text
                           ELSE FieldPass(text, 1, params),
                out |-> interpolate(text, params)]
    /\ Unchanged

InterpolateArray(text, params) ==
    /\ call = Idle
    /\ call' = [op |-> "interpolateArray", text |-> text, list |-> params,
                out |-> interpolateArray(text, params)]
    /\ Unchanged

\* Keys, parameter trees and plural calls for translate and trPlural on the
\* loaded data.
InterpolationKeys == {<<"h","e","l","l","o">>, <<"i","t","e","m","s">>, <<"g","r","e","e","t","i","n","g">>, <<"i","n","b","o","x">>, <<"m","e","n","u",".","o","p","e","n">>, <<>>}  \* "hello", "items", "greeting", "inbox", "menu.open"

InterpolationTrees ==
    <<EmptyObject,
      Obj(<<Pair(<<"n","a","m","e">>, JString(<<"B","o","b">>))>>),  \* "name", "Bob"
      Obj(<<Pair(<<"n","a","m","e">>, JString(<<"%","<","n",">",".","d">>)), Pair(<<"n">>, JNumber(5))>>),  \* "name", "%<n>.d"
      Obj(<<Pair(<<"c","o","u","n","t">>, JNumber(1)), Pair(<<"n","a","m","e">>, JString(<<"B","o","b">>))>>)>>  \* "count", "name", "Bob"

InterpolationPluralCalls ==
    <<[count |-> 1, params |-> <<>>], [count |-> 3, params |-> <<>>],
      [count |-> 1, params |-> <<<<"B","o","b">>>>],  \* "Bob"
      [count |-> 3, params |-> <<<<"B","o","b">>, <<"A","l">>>>],  \* "Bob", "Al"
      [count |-> 3, params |-> <<<<"{","}">>, <<"A","l">>>>],  \* "{}", "Al"
      [count |-> 1, params |-> <<<<"{","}">>>>]>>  \* "{}"

\* The three locale files loaded and one locale set active.
InterpolationInit ==
    /\ locales \in {<<en>>, <<enUS>>}
    /\ fallbackLocale = ResetFallbackLocale
    /\ localesData = Loaded.data
    /\ formatConfigs = Loaded.configs
    /\ defaultConfig = Loaded.config
    /\ recent = NoLoad
    /\ call = Idle

InterpolationNext ==
    \/ Resume
    \/ call = Idle /\ \E text \in NamedTemplates, i \in DOMAIN NamedTrees :
           Interpolate(text, NamedTrees[i])
    \/ call = Idle /\ \E text \in PositionalTemplates, params \in PositionalLists :
           InterpolateArray(text, params)
    \/ call = Idle /\ \E key \in InterpolationKeys, i \in DOMAIN InterpolationTrees :
           Translate(key, InterpolationTrees[i])
    \/ call = Idle /\ \E key \in InterpolationKeys, i \in DOMAIN InterpolationPluralCalls :
           TrPlural(key, InterpolationPluralCalls[i].count, InterpolationPluralCalls[i].params)

InterpolationSpec == InterpolationInit /\ [][InterpolationNext]_vars

HelperNext ==
    \/ Resume
    \/ call = Idle /\ \E requested \in RequestLists : GetFallbacks(requested)
    \/ call = Idle /\ \E locale \in PluralLocales, count \in 0..MaxCount : GetPluralForm(locale, count)
    \/ call = Idle /\ \E i \in DOMAIN PluralData, locale \in {en, ru}, j \in DOMAIN PluralParams :
           HandlePlural(PluralData[i], locale, PluralParams[j])
    \/ call = Idle /\ \E i \in DOMAIN PluralData, locale \in {en, ru}, count \in PluralCounts,
          params \in ParamLists :
           HandlePluralWithArray(PluralData[i], locale, count, params)
    \/ call = Idle /\ \E i \in DOMAIN VariantData, j \in DOMAIN VariantParams :
           HandleVariant(VariantData[i], VariantParams[j])
    \/ call = Idle /\ \E key \in HelperKeys, locale \in {en, enUS, ru, fr, <<>>}, i \in DOMAIN HelperTrees :
           LocalizedTranslate(key, locale, HelperTrees[i])
    \/ call = Idle /\ \E key \in HelperKeys, i \in DOMAIN HelperTrees : Translate(key, HelperTrees[i])
    \/ call = Idle /\ \E key \in HelperKeys, i \in DOMAIN HelperPluralCalls :
           TrPlural(key, HelperPluralCalls[i].count, HelperPluralCalls[i].params)

HelperSpec == HelperInit /\ [][HelperNext]_vars

-----------------------------------------------------------------------------
(* Properties of the helpers, checked under HelperSpec *)

Least(I) == CHOOSE i \in I : \A j \in I : i <= j
Greatest(I) == CHOOSE i \in I : \A j \in I : i >= j

\* The positions of the '-' characters of an identifier.
Dashes(id) == {i \in 1..Len(id) : id[i] = "-"}

\* The prefixes of id that end just before a '-' at a position of D, longest first.
RECURSIVE PrefixesBefore(_, _)
PrefixesBefore(id, D) ==
    IF D = {} THEN <<>>
    ELSE <<SubSeq(id, 1, Greatest(D) - 1)>> \o PrefixesBefore(id, D \ {Greatest(D)})

\* The identifier itself, then each shorter prefix that ends just before a '-'.
Ancestry(id) == <<id>> \o PrefixesBefore(id, Dashes(id))

\* The elements of a list at the positions of I, in the order of the list.
RECURSIVE Pick(_, _)
Pick(list, I) ==
    IF I = {} THEN <<>>
    ELSE <<list[Least(I)]>> \o Pick(list, I \ {Least(I)})

\* A list with every element that occurred earlier in it skipped.
FirstOccurrences(list) ==
    Pick(list, {i \in 1..Len(list) : \A j \in 1..(i - 1) : list[j] # list[i]})

NoDuplicates(list) == \A i, j \in 1..Len(list) : list[i] = list[j] => i = j

ExpectedFallbacks(requested) ==
    LET emitted == FirstOccurrences(Concat([i \in 1..Len(requested) |-> Ancestry(requested[i])]))
    IN IF fallbackLocale # <<>> /\ \A i \in 1..Len(emitted) : emitted[i] # fallbackLocale
       THEN Append(emitted, fallbackLocale)
       ELSE emitted

\* C3: getFallbacks returns the ancestries of the requested locales in request
\* order (each the identifier, then its prefixes that end before a '-', most
\* specific first) without what was already emitted, then the fallback locale
\* exactly when it is non-empty and not yet in the list; it holds no duplicates.
C3_Fallbacks ==
    call.op = "getFallbacks" =>
        /\ call.out = ExpectedFallbacks(call.requested)
        /\ NoDuplicates(call.out)

C3_Witness ==
    /\ call.op = "getFallbacks"
    /\ call.requested = <<<<"e","n","-","U","S","-","N","Y">>, enUS>>  \* "en-US-NY"
    /\ fallbackLocale = ru
    /\ call.out = <<<<"e","n","-","U","S","-","N","Y">>, enUS, en, ru>>  \* "en-US-NY"

\* The rule families of the plural table, and the category of each for n >= 0.
Family(root) ==
    CASE root \in {<<"r","u">>, <<"u","k">>, <<"b","e">>, <<"h","r">>, <<"s","r">>, <<"b","s">>, <<"s","h">>} -> "slavic"  \* "ru", "uk", "be", "hr", "sr", "bs", "sh"
      [] root = <<"p","l">> -> "polish"  \* "pl"
      [] root \in {<<"c","s">>, <<"s","k">>} -> "czech-slovak"  \* "cs", "sk"
      [] root \in {<<"f","r">>, <<"f","f">>, <<"k","a","b">>} -> "french"  \* "fr", "ff", "kab"
      [] root = <<"a","r">> -> "arabic"  \* "ar"
      [] OTHER -> "one-other"

Category(family, n) ==
    CASE family = "one-other" -> IF n = 1 THEN <<"o","n","e">> ELSE <<"o","t","h","e","r">>  \* "one", "other"
      [] family = "slavic" ->
           IF n % 10 = 1 /\ n % 100 # 11 THEN <<"o","n","e">>  \* "one"
           ELSE IF n % 10 \in 2..4 /\ n % 100 \notin 12..14 THEN <<"f","e","w">>  \* "few"
           ELSE IF n % 10 = 0 \/ n % 10 \in 5..9 \/ n % 100 \in 11..14 THEN <<"m","a","n","y">>  \* "many"
           ELSE <<"o","t","h","e","r">>  \* "other"
      [] family = "polish" ->
           IF n = 1 THEN <<"o","n","e">>  \* "one"
           ELSE IF n % 10 \in 2..4 /\ n % 100 \notin 12..14 THEN <<"f","e","w">>  \* "few"
           ELSE <<"m","a","n","y">>  \* "many"
      [] family = "czech-slovak" ->
           IF n = 1 THEN <<"o","n","e">> ELSE IF n \in 2..4 THEN <<"f","e","w">> ELSE <<"o","t","h","e","r">>  \* "one", "few", "other"
      [] family = "french" -> IF n < 2 THEN <<"o","n","e">> ELSE <<"o","t","h","e","r">>  \* "one", "other"
      [] family = "arabic" ->
           IF n = 0 THEN <<"z","e","r","o">>  \* "zero"
           ELSE IF n = 1 THEN <<"o","n","e">>  \* "one"
           ELSE IF n = 2 THEN <<"t","w","o">>  \* "two"
           ELSE IF n % 100 \in 3..10 THEN <<"f","e","w">>  \* "few"
           ELSE IF n % 100 \in 11..99 THEN <<"m","a","n","y">>  \* "many"
           ELSE <<"o","t","h","e","r">>  \* "other"

\* The text of an identifier before its first '-'.
RootOf(id) == IF Dashes(id) = {} THEN id ELSE SubSeq(id, 1, Least(Dashes(id)) - 1)

\* C7: for every locale identifier and every count >= 0, getPluralForm returns
\* the category that the rule family of the identifier's root gives the count;
\* a root that is not in the table belongs to the one-other family.
C7_PluralRules ==
    (call.op = "getPluralForm" /\ call.count >= 0) =>
        call.out = Category(Family(RootOf(call.locale)), call.count)

C7_Witness ==
    /\ call.op = "getPluralForm"
    /\ call.locale = <<"r","u","-","R","U">>  \* "ru-RU"
    /\ call.count = 112
    /\ call.out = <<"m","a","n","y">>  \* "many"

\* The key that plural selection reads for a locale and a count, as a list of at
\* most one key: the category, else `other`, else the decimal text of the count.
PickedKey(pluralData, locale, count) ==
    LET category == getPluralForm(locale, count)
        keys == DOMAIN pluralData[2]
    IN IF category \in keys THEN <<category>>
       ELSE IF <<"o","t","h","e","r">> \in keys THEN <<<<"o","t","h","e","r">>>>  \* "other"
       ELSE IF to_string(count) \in keys THEN <<to_string(count)>>
       ELSE <<>>

\* What plural handling of the tree API yields before interpolation.  Reading an
\* entry that is not a string raises type_error (the subject of C6).
ExpectedPlural(pluralData, locale, count) ==
    IF ~is_object(pluralData) THEN Return(<<"[","p","l","u","r","a","l",":"," ","d","a","t","a"," ","n","o","t"," ","o","b","j","e","c","t","]">>)  \* "[plural: data not object]"
    ELSE LET picked == PickedKey(pluralData, locale, count)
         IN IF picked = <<>> THEN Return(<<"[","p","l","u","r","a","l",":"," ","m","i","s","s","i","n","g"," ","f","o","r","m","]">>)  \* "[plural: missing form]"
            ELSE get_string(pluralData[2][picked[1]])

\* What plural handling of trPlural yields: the picked entry with the count and
\* the caller's parameters as positional parameters.
ExpectedPluralWithArray(pluralData, locale, count, list) ==
    LET picked == ExpectedPlural(pluralData, locale, count)
    IN IF ~is_object(pluralData) \/ PickedKey(pluralData, locale, count) = <<>> \/ Threw(picked)
       THEN picked
       ELSE interpolateArray(picked.s, <<to_string(count)>> \o list)

HasNumericCount(params) == contains(params, <<"c","o","u","n","t">>) /\ is_number(params[2][<<"c","o","u","n","t">>])  \* "count"

\* The candidate list translate walks for a parameter tree.
TranslateCandidates(params) ==
    getFallbacks(IF contains(params, <<"l","o","c","a","l","e">>) /\ is_string(params[2][<<"l","o","c","a","l","e">>])  \* "locale"
                 THEN <<params[2][<<"l","o","c","a","l","e">>][2]>> \o locales  \* "locale"
                 ELSE locales)

\* Candidate i is the first one with a node for the key.
FirstFound(key, candidates, i) ==
    /\ getTranslationData(key, candidates[i]).found
    /\ \A j \in 1..(i - 1) : ~getTranslationData(key, candidates[j]).found

\* C8: plural selection, in translate with a numeric count and in trPlural alike,
\* takes the category of the candidate locale in which the node was found and the
\* count, and picks the entry under the category, else under `other`, else under
\* the decimal text of the count; with none of them the result is
\* "[plural: missing form]", and data that is no object gives
\* "[plural: data not object]".
C8_PluralSelection ==
    /\ (call.op = "handlePlural" /\ HasNumericCount(call.params)) =>
           call.out = ExpectedPlural(call.data, call.locale, call.params[2][<<"c","o","u","n","t">>][2])  \* "count"
    /\ call.op = "handlePluralWithArray" =>
           call.out = ExpectedPluralWithArray(call.data, call.locale, call.count, call.list)
    /\ (call.op = "translate" /\ call.key # <<>> /\ HasNumericCount(call.params)) =>
           LET candidates == TranslateCandidates(call.params)
           IN \A i \in 1..Len(candidates) :
                  LET node == getTranslationData(call.key, candidates[i]).node
                      expected == Interpolated(ExpectedPlural(node, candidates[i],
                                                   call.params[2][<<"c","o","u","n","t">>][2]),  \* "count"
                                               call.params)
                  IN (/\ FirstFound(call.key, candidates, i)
                      /\ is_object(node)
                      /\ expected # Return(<<>>)) => call.out = expected
    /\ (call.op = "trPlural" /\ call.key # <<>>) =>
           LET candidates == getFallbacks(locales)
           IN \A i \in 1..Len(candidates) :
                  LET node == getTranslationData(call.key, candidates[i]).node
                  IN (FirstFound(call.key, candidates, i) /\ is_object(node)) =>
                         call.out = ExpectedPluralWithArray(node, candidates[i],
                                                            call.count, call.list)

C8_Witness ==
    /\ call.op = "trPlural"
    /\ locales = <<fr>>
    /\ fallbackLocale = ru
    /\ call.key = <<"i","t","e","m","s">>  \* "items"
    /\ call.count = 2
    /\ call.out = Return(<<"2"," ","f","e","w">>)  \* "2 few"

\* What the dispatch on a node's type yields.
Dispatch(node, locale, params) ==
    IF is_string(node) THEN Return(interpolate(node[2], params))
    ELSE IF is_array(node) THEN Return(dump(node))
    ELSE IF contains(params, <<"c","o","u","n","t">>)  \* "count"
    THEN Interpolated(handlePlural(node, locale, params), params)
    ELSE Interpolated(handleVariant(node, params), params)

Dispatched(node) == is_string(node) \/ is_array(node) \/ is_object(node)

\* C9: once a node is found for the key in a candidate locale, the result depends
\* on the node's type and on the presence of `count` only: a string node is
\* interpolated with the parameters, an array node is returned as its
\* serialization without interpolation, an object node goes to plural handling
\* when `count` is present and to variant handling when it is absent.
C9_Dispatch ==
    /\ call.op = "localizedTranslate" =>
           LET found == getTranslationData(call.key, call.locale)
           IN (found.found /\ Dispatched(found.node)) =>
                  call.out = Dispatch(found.node, call.locale, call.params)
    /\ (call.op = "translate" /\ call.key # <<>>) =>
           LET candidates == TranslateCandidates(call.params)
           IN \A i \in 1..Len(candidates) :
                  LET node == getTranslationData(call.key, candidates[i]).node
                      expected == Dispatch(node, candidates[i], call.params)
                  IN (/\ FirstFound(call.key, candidates, i)
                      /\ Dispatched(node)
                      /\ expected # Return(<<>>)) => call.out = expected

C9_Witness ==
    /\ call.op = "localizedTranslate"
    /\ call.key = <<"t","a","g","s">>  \* "tags"
    /\ call.locale = en
    /\ contains(call.params, <<"n","a","m","e">>)  \* "name"
    /\ call.out = Return(<<"[","\"","a","\"",",","\"","%","{","n","a","m","e","}","\"","]">>)  \* "[\"a\",\"%{name}\"]"

\* What variant handling yields before interpolation: the entry named by the
\* first string-valued parameter, in iteration order, whose value is a key of
\* the variant object, else the `other` entry, else the sentinel.  Reading an
\* entry that is not a string raises type_error (the subject of C6).
ExpectedVariant(variantData, params) ==
    LET values == IterationValues(params)
        matching == {i \in 1..Len(values) :
                        is_string(values[i]) /\ values[i][2] \in DOMAIN variantData[2]}
    IN IF matching # {} THEN get_string(variantData[2][values[Least(matching)][2]])
       ELSE IF <<"o","t","h","e","r">> \in DOMAIN variantData[2] THEN get_string(variantData[2][<<"o","t","h","e","r">>])  \* "other"
       ELSE Return(<<"[","v","a","r","i","a","n","t",":"," ","n","o"," ","m","a","t","c","h","]">>)  \* "[variant: no match]"

\* C10: variant handling scans the values of the parameter tree in iteration
\* order and returns the entry selected by the first string-valued parameter
\* whose value is a key of the variant object, else the `other` entry, else
\* "[variant: no match]".
C10_VariantSelection ==
    /\ (call.op = "handleVariant" /\ is_object(call.data)) =>
           call.out = ExpectedVariant(call.data, call.params)
    /\ (call.op = "translate" /\ call.key # <<>> /\ ~contains(call.params, <<"c","o","u","n","t">>)) =>  \* "count"
           LET candidates == TranslateCandidates(call.params)
           IN \A i \in 1..Len(candidates) :
                  LET node == getTranslationData(call.key, candidates[i]).node
                      expected == Interpolated(ExpectedVariant(node, call.params), call.params)
                  IN (/\ FirstFound(call.key, candidates, i)
                      /\ is_object(node)
                      /\ expected # Return(<<>>)) => call.out = expected

C10_Witness ==
    /\ call.op = "handleVariant"
    /\ call.data = VariantData[2]
    /\ call.params = VariantParams[4]
    /\ call.out = Return(<<"G","o","o","d"," ","d","a","y">>)  \* "Good day"

-----------------------------------------------------------------------------
(* Properties of the public operations, checked under Spec *)

\* What the walk over the candidates yields for a key: the outcome of the first
\* candidate whose outcome is not the empty string, else the interpolated
\* string-valued `default`, else the key.
ExpectedTranslate(key, params) ==
    LET candidates == TranslateCandidates(params)
        yielding == {i \in 1..Len(candidates) :
                        localizedTranslate(key, candidates[i], params) # Return(<<>>)}
    IN IF yielding # {} THEN localizedTranslate(key, candidates[Least(yielding)], params)
       ELSE IF contains(params, <<"d","e","f","a","u","l","t">>) /\ is_string(params[2][<<"d","e","f","a","u","l","t">>])  \* "default"
       THEN Return(interpolate(params[2][<<"d","e","f","a","u","l","t">>][2], params))  \* "default"
       ELSE Return(key)

\* C1: for every non-empty key, translate walks getFallbacks of the active
\* locales (a string-valued `locale` parameter first) in order and gives the
\* outcome of the first candidate that does not resolve to the empty string (an
\* error raised while resolving that candidate leaves translate); with no such
\* candidate it returns the interpolated string-valued `default`, else the key.
\* For the empty key it returns the empty string.
C1_TranslateWalk ==
    call.op = "translate" =>
        call.out = IF call.key = <<>> THEN Return(<<>>)
                   ELSE ExpectedTranslate(call.key, call.params)

C1_Witness ==
    /\ call.op = "translate"
    /\ locales = <<enUS>>
    /\ enUS \in DOMAIN localesData /\ localesData[enUS] = RegionData
    /\ en \in DOMAIN localesData /\ localesData[en] = BaseData
    /\ call.key = <<"h","e","l","l","o">>  \* "hello"
    /\ contains(call.params, <<"n","a","m","e">>)  \* "name"
    /\ call.out = Return(<<"H","e","l","l","o"," ","B","o","b","!">>)  \* "Hello Bob!"

\* C1 as stated, for every key, the empty key included.
C1_EveryKey ==
    call.op = "translate" => call.out = ExpectedTranslate(call.key, call.params)

\* What tr resolves a key to in one candidate locale; the empty string when the
\* candidate has no node or nothing to return for it.
TrResolved(key, locale, list) ==
    LET found == getTranslationData(key, locale)
        node == found.node
    IN IF ~found.found THEN Return(<<>>)
       ELSE IF is_string(node) THEN interpolateArray(node[2], list)
       ELSE IF is_object(node) /\ DOMAIN node[2] # {}
       THEN LET text == get_string(IF contains(node, <<"o","t","h","e","r">>) THEN node[2][<<"o","t","h","e","r">>]  \* "other"
                                   ELSE FirstMember(node))
            IN IF Threw(text) THEN text ELSE interpolateArray(text.s, list)
       ELSE Return(<<>>)

\* What trPlural resolves a key to in one candidate locale.
TrPluralResolved(key, locale, count, list) ==
    LET found == getTranslationData(key, locale)
        node == found.node
    IN IF ~found.found THEN Return(<<>>)
       ELSE IF is_object(node) THEN handlePluralWithArray(node, locale, count, list)
       ELSE IF is_string(node) THEN interpolateArray(node[2], <<to_string(count)>> \o list)
       ELSE Return(<<>>)

\* C2: tr and trPlural return what the first candidate locale, in fallback order,
\* that does not resolve to the empty string resolves to; a candidate that
\* resolves to the empty string is passed over like a missing key; with no such
\* candidate they return the key.
C2_SkipEmpty ==
    /\ (call.op = "tr" /\ call.key # <<>>) =>
           LET candidates == getFallbacks(locales)
               yielding == {i \in 1..Len(candidates) :
                               TrResolved(call.key, candidates[i], call.list) # Return(<<>>)}
           IN call.out = IF yielding = {} THEN Return(call.key)
                         ELSE TrResolved(call.key, candidates[Least(yielding)], call.list)
    /\ (call.op = "trPlural" /\ call.key # <<>>) =>
           LET candidates == getFallbacks(locales)
               yielding == {i \in 1..Len(candidates) :
                               TrPluralResolved(call.key, candidates[i], call.count, call.list)
                                   # Return(<<>>)}
           IN call.out = IF yielding = {} THEN Return(call.key)
                         ELSE TrPluralResolved(call.key, candidates[Least(yielding)],
                                               call.count, call.list)

\* C4: keyExists is true exactly when the lookup of the key succeeds in at least
\* one locale of getFallbacks(active locales), and it raises no error.
C4_KeyExists ==
    call.op = "keyExists" =>
        LET candidates == getFallbacks(locales)
        IN call.yes = (\E i \in 1..Len(candidates) :
                           getTranslationData(call.key, candidates[i]).found)

\* C5: after load(data), where data holds under the locale identifier L a nested
\* object with a string s at the dotted path k, and then setLocale(L),
\* keyExists(k) is true and translate(k) and tr(k) return s.
C5_LoadThenLookup ==
    (Len(recent) = 2 /\ call.op \in {"keyExists", "translate", "tr"} /\ call.key # <<>>) =>
        LET data == recent[1].data
            L == recent[2].locale
        IN contains(data, L) =>
               LET at == WalkPath(data[2][L], dotSplit(call.key))
               IN (at.found /\ is_string(at.node)) =>
                      /\ call.op = "keyExists" => call.yes
                      /\ (call.op = "translate" /\ call.params = EmptyObject) =>
                             call.out = Return(at.node[2])
                      /\ (call.op = "tr" /\ call.list = <<>>) =>
                             call.out = Return(at.node[2])

\* C6: translate, tr and trPlural return a string and raise no error, whatever
\* the translation data holds.
C6_NeverThrows ==
    call.op \in {"translate", "tr", "trPlural"} => ~Threw(call.out)

-----------------------------------------------------------------------------
(* Positional placeholders, stated on the template as the caller wrote it *)

\* The end of the run of decimal digits that starts at position i (i - 1 when
\* there is none).
RECURSIVE DigitsEnd(_, _)
DigitsEnd(text, i) ==
    IF i <= Len(text) /\ IsDigit(text[i]) THEN DigitsEnd(text, i + 1) ELSE i - 1

\* A string of decimal digits without its leading zeros.
RECURSIVE Significant(_)
Significant(digits) ==
    IF digits # <<>> /\ Head(digits) = "0" THEN Significant(Tail(digits)) ELSE digits

\* The number a short string of decimal digits writes.
RECURSIVE Written(_)
Written(digits) ==
    IF digits = <<>> THEN 0
    ELSE 10 * Written(SubSeq(digits, 1, Len(digits) - 1)) + (CharCode[digits[Len(digits)]] - 48)

\* Whether the number written by a string of decimal digits, however long, is
\* below n (n < 1000).
WrittenBelow(digits, n) ==
    LET d == Significant(digits) IN Len(d) <= 3 /\ Written(d) < n

\* One left-to-right reading of a template: `{N}` becomes p[N] when N < |p|,
\* the k-th `{}` becomes p[k] when k < |p|, everything else stays, and inserted
\* text is not read again.
RECURSIVE Positional(_, _, _, _)
Positional(text, i, p, k) ==
    IF i > Len(text) THEN <<>>
    ELSE IF text[i] = "{" /\ i < Len(text) /\ text[i + 1] = "}"
    THEN (IF k < Len(p) THEN p[k + 1] ELSE <<"{","}">>) \o Positional(text, i + 2, p, k + 1)  \* "{}"
    ELSE LET e == DigitsEnd(text, i + 1)
         IN IF text[i] = "{" /\ e > i /\ e < Len(text) /\ text[e + 1] = "}"
            THEN (IF WrittenBelow(SubSeq(text, i + 1, e), Len(p))
                  THEN p[Written(Significant(SubSeq(text, i + 1, e))) + 1]
                  ELSE SubSeq(text, i, e + 1))
                 \o Positional(text, e + 2, p, k)
            ELSE <<text[i]>> \o Positional(text, i + 1, p, k)

\* The plural entry trPlural selects for a call, as a list of at most one
\* template: the entry of the first candidate locale that has a node for the
\* key, when that node is an object and the selected entry is a string.
SelectedForm(key, count) ==
    LET candidates == getFallbacks(locales)
        first == {i \in 1..Len(candidates) : FirstFound(key, candidates, i)}
    IN IF first = {} THEN <<>>
       ELSE LET i == CHOOSE i \in first : TRUE
                node == getTranslationData(key, candidates[i]).node
                picked == IF is_object(node) THEN PickedKey(node, candidates[i], count) ELSE <<>>
            IN IF picked # <<>> /\ is_string(node[2][picked[1]])
               THEN <<node[2][picked[1]][2]>>
               ELSE <<>>

\* C11: trPlural interpolates the selected plural form with the positional list
\* made of the decimal text of the count followed by the caller's parameters:
\* `{0}` and the first `{}` yield the count, `{i+1}` yields params[i]; under the
\* active locale "en", trPlural("greeting", 1) is "Hello, friend!" and
\* trPlural("greeting", 3) is "Hello, 3 friends!".
C11_PluralPositional ==
    (call.op = "trPlural" /\ call.key # <<>>) =>
        LET form == SelectedForm(call.key, call.count)
            expected == Positional(form[1], 1, <<to_string(call.count)>> \o call.list, 0)
        IN /\ (form # <<>> /\ expected # <<>>) => call.out = Return(expected)
           /\ (locales = <<en>> /\ call.key = <<"g","r","e","e","t","i","n","g">> /\ call.list = <<>>) =>  \* "greeting"
                  /\ call.count = 1 => call.out = Return(<<"H","e","l","l","o",","," ","f","r","i","e","n","d","!">>)  \* "Hello, friend!"
                  /\ call.count = 3 => call.out = Return(<<"H","e","l","l","o",","," ","3"," ","f","r","i","e","n","d","s","!">>)  \* "Hello, 3 friends!"

\* The same statement for parameters without a brace.
C11_PlainParameters ==
    (call.op = "trPlural" /\ \A i \in DOMAIN call.list : "{" \notin {call.list[i][j] : j \in DOMAIN call.list[i]}) =>
        C11_PluralPositional

C11_Example ==
    /\ call.op = "trPlural" /\ locales = <<en>> /\ call.key = <<"g","r","e","e","t","i","n","g">>  \* "greeting"
    /\ call.count = 3 /\ call.list = <<>> /\ call.out = Return(<<"H","e","l","l","o",","," ","3"," ","f","r","i","e","n","d","s","!">>)  \* "Hello, 3 friends!"

\* C12: for a non-empty positional list p and every template, the positional
\* pass raises no error and returns the template with every `{N}` replaced by
\* p[N] when N < |p|, the k-th `{}` (counted on the template, from 0) replaced by
\* p[k] when k < |p|, and all other text, the placeholders out of range
\* included, kept in order.
C12_PositionalPass ==
    (call.op = "interpolateArray" /\ call.list # <<>>) =>
        call.out = Return(Positional(call.text, 1, call.list, 0))

\* The same statement for indexes that fit an int and parameters that are
\* neither empty nor carry a brace.
C12_SmallIndexPlainParameters ==
    (/\ call.op = "interpolateArray"
     /\ call.text \notin {<<"{","9","9","9","9","9","9","9","9","9","9","9","}">>, <<"{","2","1","4","7","4","8","3","6","4","8","}">>}  \* "{99999999999}", "{2147483648}"
     /\ \A i \in DOMAIN call.list :
            call.list[i] # <<>> /\ "{" \notin {call.list[i][j] : j \in DOMAIN call.list[i]})
        => C12_PositionalPass

C12_IndexOutOfInt ==
    /\ call.op = "interpolateArray" /\ call.text = <<"{","2","1","4","7","4","8","3","6","4","8","}">> /\ call.list = <<<<"A">>>>  \* "{2147483648}"
    /\ call.out = Throw("out_of_range")

-----------------------------------------------------------------------------
(* Named placeholders, stated on the template as the caller wrote it *)

\* The end of the run of word characters and dots that starts at position i
\* (i - 1 when there is none).
RECURSIVE NameEnd(_, _)
NameEnd(text, i) ==
    IF i <= Len(text) /\ (IsWord(text[i]) \/ text[i] = ".") THEN NameEnd(text, i + 1) ELSE i - 1

\* A `%{key}` placeholder starts at position i.
IsNamedAt(text, i) ==
    LET e == NameEnd(text, i + 2)
    IN /\ i < Len(text) /\ text[i] = "%" /\ text[i + 1] = "{"
       /\ e >= i + 2 /\ e < Len(text) /\ text[e + 1] = "}"

\* The text that stands for a member of the parameter tree: a string verbatim,
\* any other value as its JSON text.
MemberText(value) == IF is_string(value) THEN value[2] ELSE dump(value)

\* One left-to-right reading of a template: a `%{key}` that is not immediately
\* preceded by `%` and whose key is a top-level member becomes that member's
\* text, everything else stays, and inserted text is not read again.
RECURSIVE Named(_, _, _)
Named(text, i, params) ==
    IF i > Len(text) THEN <<>>
    ELSE LET e == NameEnd(text, i + 2)
             key == SubSeq(text, i + 2, e)
         IN IF /\ IsNamedAt(text, i)
               /\ ~(i > 1 /\ text[i - 1] = "%")
               /\ key \in DOMAIN params[2]
            THEN MemberText(params[2][key]) \o Named(text, e + 2, params)
            ELSE <<text[i]>> \o Named(text, i + 1, params)

\* Whether a string holds the two characters a, b next to each other.
HasPair(text, a, b) == \E i \in 1..(Len(text) - 1) : text[i] = a /\ text[i + 1] = b

\* The string translate finds for a key, as a list of at most one template: the
\* node of the first candidate locale that has one, when it is a string.
FoundString(key, params) ==
    LET candidates == TranslateCandidates(params)
        first == {i \in 1..Len(candidates) : FirstFound(key, candidates, i)}
    IN IF first = {} THEN <<>>
       ELSE LET node == getTranslationData(key, candidates[CHOOSE i \in first : TRUE]).node
            IN IF is_string(node) THEN <<node[2]>> ELSE <<>>

\* C13: text inserted by a substitution is not scanned again.  With a template
\* whose only placeholders are `{N}`, interpolateArray and trPlural return the
\* template with each `{N}` replaced by its parameter exactly as supplied, also
\* when the value holds `{}` or `{N}`; with a template whose only placeholders
\* are `%{key}`, interpolate and translate return it with each `%{key}` replaced
\* by its value exactly as supplied, also when the value holds `%<key>.fmt`.
C13_InsertedTextNotScanned ==
    /\ (/\ call.op = "interpolateArray" /\ call.list # <<>>
        /\ ~HasPair(call.text, "{", "}") /\ ~Threw(call.out)) =>
           call.out = Return(Positional(call.text, 1, call.list, 0))
    /\ (call.op = "trPlural" /\ call.key # <<>>) =>
           LET form == SelectedForm(call.key, call.count)
               expected == Positional(form[1], 1, <<to_string(call.count)>> \o call.list, 0)
           IN (form # <<>> /\ ~HasPair(form[1], "{", "}") /\ expected # <<>>) =>
                  call.out = Return(expected)
    /\ (call.op = "interpolate" /\ is_object(call.params) /\ ~HasPair(call.text, "%", "<")) =>
           call.out = Named(call.text, 1, call.params)
    /\ (call.op = "translate" /\ call.key # <<>> /\ is_object(call.params)) =>
           LET found == FoundString(call.key, call.params)
               expected == Named(found[1], 1, call.params)
           IN (found # <<>> /\ ~HasPair(found[1], "%", "<") /\ expected # <<>>) =>
                  call.out = Return(expected)

\* The same statement for parameter values that are not empty and hold neither
\* `{}` nor `%<`.
C13_PlainValues ==
    (/\ call.op \in {"interpolateArray", "trPlural"} =>
            \A i \in DOMAIN call.list : call.list[i] # <<>> /\ ~HasPair(call.list[i], "{", "}")
     /\ call.op \in {"interpolate", "translate"} =>
            (is_object(call.params) =>
                \A k \in DOMAIN call.params[2] :
                    is_string(call.params[2][k]) => ~HasPair(call.params[2][k][2], "%", "<")))
        => C13_InsertedTextNotScanned

C13_ValueScannedAgain ==
    /\ call.op = "interpolate" /\ call.text = <<"%","{","a","}">>  \* "%{a}"
    /\ contains(call.params, <<"a">>) /\ call.params[2][<<"a">>] = JString(<<"%","<","n",">",".","d">>)  \* "%<n>.d"
    /\ call.out = <<"5">>

\* C14: in the named-field pass of interpolate with an object parameter tree,
\* every `%{key}` not immediately preceded by `%` is replaced by the value of the
\* top-level member `key` (a string verbatim, any other value as its JSON text)
\* when that member exists and left as written when not; an occurrence
\* immediately preceded by `%` is never substituted; all other text, the
\* character before each placeholder included, is kept in order, also for
\* several and adjacent placeholders; a template without a placeholder is
\* returned unchanged.
C14_NamedFieldPass ==
    (call.op = "interpolate" /\ is_object(call.params)) =>
        /\ call.fields = Named(call.text, 1, call.params)
        /\ (\A i \in DOMAIN call.text : ~IsNamedAt(call.text, i)) => call.fields = call.text
        /\ (~HasPair(call.text, "%", "{") /\ ~HasPair(call.text, "%", "<")) =>
               call.out = call.text

C14_Witness ==
    /\ call.op = "interpolate" /\ call.text = <<"%","{","a","}","%","%","{","b","}">>  \* "%{a}%%{b}"
    /\ contains(call.params, <<"a">>) /\ contains(call.params, <<"b">>)
    /\ call.params[2][<<"a">>] = JString(<<"A">>)
    /\ call.fields = <<"A","%","%","{","b","}">> /\ call.out = <<"A","%","%","{","b","}">>  \* "A%%{b}"

-----------------------------------------------------------------------------
(* Loading data that carries `_formats` blocks *)

\* A `_formats` block that configure accepts: a currency symbol and a list of
\* two short day names.
FormatsBlock ==
    Obj(<<Pair(<<"c","u","r","r","e","n","c","y">>, Obj(<<Pair(<<"s","y","m","b","o","l">>, JString(<<"E","U","R">>))>>)),  \* "currency", "symbol", "EUR"
          Pair(<<"s","h","o","r","t","_","d","a","y","_","n","a","m","e","s">>, JArray(<<JString(<<"M","o">>), JString(<<"D","i">>)>>))>>)  \* "short_day_names", "Mo", "Di"

\* A `_formats` block with an entry of the wrong type after a valid one.
BadFormatsBlock ==
    Obj(<<Pair(<<"n","u","m","b","e","r">>, Obj(<<Pair(<<"d","e","c","i","m","a","l","_","s","y","m","b","o","l">>, JString(<<",">>)),  \* "number", "decimal_symbol"
                                  Pair(<<"f","r","a","c","t","_","d","i","g","i","t","s">>, JString(<<"t","w","o">>))>>))>>)  \* "fract_digits", "two"

FormatsFile ==
    File(TRUE, TRUE, Obj(<<Pair(<<"_","f","o","r","m","a","t","s">>, FormatsBlock),  \* "_formats"
                           Pair(<<"h","e","l","l","o">>, JString(<<"H","a","l","l","o">>))>>))  \* "hello", "Hallo"

BadFormatsFile ==
    File(TRUE, TRUE, Obj(<<Pair(<<"_","f","o","r","m","a","t","s">>, BadFormatsBlock),  \* "_formats"
                           Pair(<<"b","y","e">>, JString(<<"S","e","r","v","u","s">>))>>))  \* "bye", "Servus"

\* A locale file whose `_formats` member is a string.
TextFormatsFile ==
    File(TRUE, TRUE, Obj(<<Pair(<<"_","f","o","r","m","a","t","s">>, JString(<<"p","l","a","i","n">>)),  \* "_formats", "plain"
                           Pair(<<"b","y","e">>, JString(<<"B","y","e">>))>>))  \* "bye", "Bye"

\* A document for load: a `_formats` block at the top, one inside a locale, and
\* a string under a locale identifier.
FormatsDocument ==
    Obj(<<Pair(<<"_","f","o","r","m","a","t","s">>, FormatsBlock),  \* "_formats"
          Pair(ru, Obj(<<Pair(<<"_","f","o","r","m","a","t","s">>, FormatsBlock),  \* "_formats"
                         Pair(<<"h","e","l","l","o">>, JString(<<"P","r","i","v","e","t">>))>>)),  \* "hello", "Privet"
          Pair(en, JString(<<"t","e","x","t">>))>>)  \* "text"

LoadingCalls ==
    <<[locale |-> en, file |-> FormatsFile], [locale |-> en, file |-> BadFormatsFile],
      [locale |-> en, file |-> TextFormatsFile], [locale |-> ru, file |-> FormatsFile],
      [locale |-> ru, file |-> UnreadableFile], [locale |-> ru, file |-> MalformedFile]>>

LoadingKeys == {<<"_","f","o","r","m","a","t","s">>, <<"_","f","o","r","m","a","t","s",".","n","u","m","b","e","r">>, <<"h","e","l","l","o">>, <<"b","y","e">>}  \* "_formats", "_formats.number", "hello", "bye"

LoadingNext ==
    \/ Resume
    \/ call = Idle /\ Reset
    \/ call = Idle /\ \E i \in DOMAIN LoadingCalls :
           LoadLocale(LoadingCalls[i].locale, LoadingCalls[i].file)
    \/ call = Idle /\ Load(FormatsDocument)
    \/ call = Idle /\ \E locale \in {en, ru} : SetLocale(locale)
    \/ call = Idle /\ \E newLocales \in {<<>>, <<ru, en>>} : SetLocales(newLocales)
    \/ call = Idle /\ \E key \in LoadingKeys : KeyExists(key)
    \/ call = Idle /\ \E key \in LoadingKeys : Translate(key, EmptyObject)

LoadingSpec == Init /\ [][LoadingNext]_vars

\* C15: after any sequence of loadLocale, load and setLocale since construction
\* or reset, the effective FormatConfig is the config registered for the first
\* active locale if one was registered, and the library-wide default otherwise.
C15_EffectiveConfig ==
    defaultConfig = IF locales # <<>> /\ locales[1] \in DOMAIN formatConfigs
                    THEN formatConfigs[locales[1]]
                    ELSE DefaultFormatConfig

\* What the code keeps instead: a call of setLocale for a locale with a
\* registered config puts that config in effect.
C15_SwitchToRegistered ==
    (call.op = "setLocale" /\ call.locale \in DOMAIN formatConfigs) =>
        defaultConfig = formatConfigs[call.locale]

C15_OverridesOfInactiveLocale ==
    /\ locales = <<en>> /\ DOMAIN formatConfigs = {ru}
    /\ defaultConfig.currency.symbol = <<"E","U","R">>  \* "EUR"

\* The first dotted segment of a key is `_formats`.
IsFormatsKey(key) == key # <<>> /\ dotSplit(key)[1] = <<"_","f","o","r","m","a","t","s">>  \* "_formats"

\* C16: after any sequence of load operations, no key whose first dotted segment
\* is `_formats` is a translation key of any locale: its lookup fails, keyExists
\* is false for it and translate returns the key.
C16_FormatsIsNoKey ==
    /\ \A locale \in {en, ru}, key \in LoadingKeys :
           IsFormatsKey(key) => ~getTranslationData(key, locale).found
    /\ (call.op = "keyExists" /\ IsFormatsKey(call.key)) => ~call.yes
    /\ (call.op = "translate" /\ IsFormatsKey(call.key)) => call.out = Return(call.key)

\* What the code keeps instead: a loadLocale call that returns normally from a
\* document whose `_formats` member is an object leaves no `_formats` member in
\* the locale's tree, and load stores none.
C16_ObjectBlockRemoved ==
    /\ (/\ call.op = "loadLocale" /\ call.exc = "" /\ call.file.opens /\ call.file.parses
        /\ contains(call.file.data, <<"_","f","o","r","m","a","t","s">>)  \* "_formats"
        /\ is_object(call.file.data[2][<<"_","f","o","r","m","a","t","s">>])) =>  \* "_formats"
           ~getTranslationData(<<"_","f","o","r","m","a","t","s">>, call.locale).found  \* "_formats"
    /\ \A k \in DOMAIN localesData : ~IsFormatsKey(k)

C16_TextBlockIsKey ==
    /\ call.op = "translate" /\ call.key = <<"_","f","o","r","m","a","t","s">> /\ locales = <<en>>  \* "_formats"
    /\ call.out = Return(<<"p","l","a","i","n">>)  \* "plain"

\* C17: loadLocale is all-or-nothing: whenever a call raises an error, whatever
\* the cause, the dataset, the per-locale format configs and the effective
\* FormatConfig are as before the call.
C17_AllOrNothing ==
    [][(call = Idle /\ call'.op = "loadLocale" /\ call'.exc # "")
           => UNCHANGED <<localesData, formatConfigs, defaultConfig>>]_vars

\* What the code keeps instead: a call that fails because the file cannot be
\* opened or parsed changes nothing, and no failing call changes the registered
\* configs.
C17_UnreadableOrUnparsable ==
    [][(call = Idle /\ call'.op = "loadLocale" /\ call'.exc # "")
           => /\ UNCHANGED formatConfigs
              /\ call'.exc = "I18NError" => UNCHANGED <<localesData, defaultConfig>>]_vars

C17_HalfLoaded ==
    /\ call.op = "loadLocale" /\ call.exc = "type_error" /\ call.locale = en
    /\ contains(localesData[en], <<"b","y","e">>)  \* "bye"
    /\ defaultConfig.number.decimal_symbol = <<",">>
    /\ defaultConfig.number.fract_digits = 2

\* Lookup of a key in the data a dataset holds for a locale succeeds.
Lookup(dataset, key, locale) ==
    locale \in DOMAIN dataset /\ WalkPath(dataset[locale], dotSplit(key)).found

\* C18: between two resets translation data only grows: for every locale and
\* key, a lookup that succeeds before a loadLocale or load call still succeeds
\* after it, so keyExists, once true, stays true.
C18_DataOnlyGrows ==
    [][(call = Idle /\ call'.op \in {"loadLocale", "load"}) =>
           \A key \in LoadingKeys :
               /\ \A locale \in {en, ru} :
                      Lookup(localesData, key, locale) => Lookup(localesData', key, locale)
               /\ keyExists(key) => keyExists(key)']_vars

\* What the code keeps instead: loadLocale leaves the data of every other
\* locale as it was.
C18_OtherLocalesKept ==
    [][(call = Idle /\ call'.op = "loadLocale") =>
           \A locale \in DOMAIN localesData :
               locale # call'.locale =>
                   locale \in DOMAIN localesData' /\ localesData'[locale] = localesData[locale]]_vars

C18_TreeReplaced ==
    /\ call.op = "loadLocale" /\ call.exc = "" /\ call.locale = en
    /\ call.file = TextFormatsFile
    /\ ~Lookup(localesData, <<"h","e","l","l","o">>, en) /\ Lookup(localesData, <<"b","y","e">>, en)  \* "hello", "bye"

-----------------------------------------------------------------------------
(* The public configure next to the loading operations *)

\* Arguments of configure: the two blocks above, a value that is no object, and
\* a list of month names whose second item is a number.
ConfigureBlocks ==
    <<FormatsBlock, BadFormatsBlock, JString(<<"p","l","a","i","n">>),  \* "plain"
      Obj(<<Pair(<<"l","o","n","g","_","m","o","n","t","h","_","n","a","m","e","s">>, JArray(<<JString(<<"M","o","n","t","h">>), JNumber(1)>>))>>)>>  \* "long_month_names", "Month"

Configure(formats) ==
    LET after == configure(defaultConfig, formats)
    IN /\ call = Idle
       /\ defaultConfig' = after.cfg
       /\ recent' = NoLoad
       /\ call' = [op |-> "configure", formats |-> formats, exc |-> after.exc]
       /\ UNCHANGED <<locales, fallbackLocale, localesData, formatConfigs>>

ConfigureNext ==
    \/ LoadingNext
    \/ call = Idle /\ \E i \in DOMAIN ConfigureBlocks : Configure(ConfigureBlocks[i])
    \/ call = Idle /\ SetFallbackLocale(ru)

ConfigureSpec == Init /\ [][ConfigureNext]_vars

\* A config holds 12 short and 12 long month names, 7 short and 7 long day names.
NamesComplete(cfg) ==
    /\ Len(cfg.short_month_names) = 12 /\ Len(cfg.long_month_names) = 12
    /\ Len(cfg.short_day_names) = 7 /\ Len(cfg.long_day_names) = 7

\* C19: in every reachable state, after any sequence of configure, load and
\* loadLocale calls with arbitrary `_formats` content, the effective FormatConfig
\* and every registered per-locale FormatConfig hold exactly 12 short month
\* names, 12 long month names, 7 short day names and 7 long day names.
C19_NameLists ==
    /\ NamesComplete(defaultConfig)
    /\ \A locale \in DOMAIN formatConfigs : NamesComplete(formatConfigs[locale])

\* What the code keeps instead: after a configure call that returns normally a
\* name list holds the strings of the array it was given, however many.
C19_ListsAsGiven ==
    (call.op = "configure" /\ call.exc = "" /\ contains(call.formats, <<"s","h","o","r","t","_","d","a","y","_","n","a","m","e","s">>)) =>  \* "short_day_names"
        defaultConfig.short_day_names =
            [i \in DOMAIN call.formats[2][<<"s","h","o","r","t","_","d","a","y","_","n","a","m","e","s">>][2] |->  \* "short_day_names"
                call.formats[2][<<"s","h","o","r","t","_","d","a","y","_","n","a","m","e","s">>][2][i][2]]  \* "short_day_names"

C19_ListCutShort ==
    /\ call.op = "configure" /\ call.exc = "type_error"
    /\ defaultConfig.long_month_names = <<<<"M","o","n","t","h">>>>  \* "Month"

\* C20: after any sequence of operations, reset() leaves the instance exactly in
\* the state of a freshly constructed one: no active locale, an empty dataset, no
\* per-locale format config, the default FormatConfig and the fallback "en";
\* afterwards keyExists is false for every key and translate(key) returns the
\* key for every non-empty key.
C20_ResetIsFresh ==
    call.op = "reset" =>
        /\ locales = <<>>
        /\ localesData = <<>>
        /\ formatConfigs = <<>>
        /\ defaultConfig = DefaultFormatConfig
        /\ fallbackLocale = <<"e","n">>  \* "en"
        /\ \A key \in LoadingKeys \cup Keys :
               /\ ~keyExists(key)
               /\ key # <<>> => translate(key, EmptyObject) = Return(key)

C20_Witness ==
    /\ call.op = "reset"
    /\ locales = <<>> /\ DOMAIN localesData = {} /\ DOMAIN formatConfigs = {}
    /\ defaultConfig.currency.symbol = <<"X","X","X">> /\ fallbackLocale = <<"e","n">>  \* "XXX", "en"
    /\ ~keyExists(<<"h","e","l","l","o">>) /\ translate(<<"h","e","l","l","o">>, EmptyObject) = Return(<<"h","e","l","l","o">>)  \* "hello"

-----------------------------------------------------------------------------
(* Number formatting *)

\* Naturals beyond 2^31 are kept as strings of decimal digits.
DigitOf(c) == CharCode[c] - 48

\* Whether natural a is below natural b, both without leading zeros.
NatLess(a, b) == Len(a) < Len(b) \/ (Len(a) = Len(b) /\ StrLess(a, b))

\* The remainder of a natural by m.
RECURSIVE ModSmall(_, _)
ModSmall(digits, m) ==
    IF digits = <<>> THEN 0
    ELSE (10 * ModSmall(SubSeq(digits, 1, Len(digits) - 1), m) + DigitOf(digits[Len(digits)])) % m

\* A natural plus n.
RECURSIVE AddSmall(_, _)
AddSmall(digits, n) ==
    IF n = 0 THEN digits
    ELSE IF digits = <<>> THEN NatToString(n)
    ELSE LET t == DigitOf(digits[Len(digits)]) + n
         IN AddSmall(SubSeq(digits, 1, Len(digits) - 1), t \div 10) \o <<DigitChars[(t % 10) + 1]>>

\* A natural minus n, for n up to the natural.
RECURSIVE SubSmall(_, _)
SubSmall(digits, n) ==
    IF n = 0 THEN digits
    ELSE LET t == DigitOf(digits[Len(digits)]) - (n % 10)
         IN SubSmall(SubSeq(digits, 1, Len(digits) - 1), (n \div 10) + (IF t < 0 THEN 1 ELSE 0))
                \o <<DigitChars[((t + 10) % 10) + 1]>>

RECURSIVE Zeros(_)
Zeros(n) == IF n <= 0 THEN <<>> ELSE <<"0">> \o Zeros(n - 1)

\* 2^53 .. 2^63: from 2^53 on a double has no bit below 2, from 2^54 none below 4, ...
Binades ==
    <<<<"9","0","0","7","1","9","9","2","5","4","7","4","0","9","9","2">>, <<"1","8","0","1","4","3","9","8","5","0","9","4","8","1","9","8","4">>, <<"3","6","0","2","8","7","9","7","0","1","8","9","6","3","9","6","8">>,  \* "9007199254740992", "18014398509481984", "36028797018963968"
      <<"7","2","0","5","7","5","9","4","0","3","7","9","2","7","9","3","6">>, <<"1","4","4","1","1","5","1","8","8","0","7","5","8","5","5","8","7","2">>, <<"2","8","8","2","3","0","3","7","6","1","5","1","7","1","1","7","4","4">>,  \* "72057594037927936", "144115188075855872", "288230376151711744"
      <<"5","7","6","4","6","0","7","5","2","3","0","3","4","2","3","4","8","8">>, <<"1","1","5","2","9","2","1","5","0","4","6","0","6","8","4","6","9","7","6">>, <<"2","3","0","5","8","4","3","0","0","9","2","1","3","6","9","3","9","5","2">>,  \* "576460752303423488", "1152921504606846976", "2305843009213693952"
      <<"4","6","1","1","6","8","6","0","1","8","4","2","7","3","8","7","9","0","4">>, <<"9","2","2","3","3","7","2","0","3","6","8","5","4","7","7","5","8","0","8">>>>  \* "4611686018427387904", "9223372036854775808"

\* The distance between neighbouring doubles at a natural v >= 2^52 (1 below 2^53).
Ulp(v) == 2 ^ Cardinality({i \in DOMAIN Binades : ~NatLess(v, Binades[i])})

\* The double nearest to q + rem / 10^d (rem < 10^d), halves to the even
\* neighbour, where that double is a whole number: IEEE 754 round-to-nearest, the
\* rounding of every arithmetic operation on double.
NearestDouble(q, rem, d) ==
    LET u == Ulp(q)
        r == ModSmall(q, u)
        below == (r * (10 ^ d)) + rem
        odd == ModSmall(q, 2 * u) >= u
    IN IF 2 * below < u * (10 ^ d) \/ (2 * below = u * (10 ^ d) /\ ~odd)
       THEN StripZeros(SubSmall(q, r))
       ELSE AddSmall(q, u - r)

\* 10^15 < 2^50: below it the products and quotients of formatNumberWithConfig
\* are exact enough for std::round to recover the decimal.
ExactBelow == <<"1","0","0","0","0","0","0","0","0","0","0","0","0","0","0","0">>  \* "1000000000000000"

\* absNumber * 10^d as the code's std::round leaves it (i18ncpp.cpp:777): a
\* natural. A number is the double nearest to the decimal int.frac. Below
\* ExactBelow the rounding error of the product is below 1/2 and
\* std::round (halves away from zero) gives the decimal's own rounding; above,
\* the product of a whole number is rounded to a double, which std::round keeps.
Scaled(number, d) ==
    LET exact == StripZeros(number.int \o SubSeq(number.frac \o Zeros(d), 1, d))
    IN IF NatLess(exact, ExactBelow)
       THEN (IF Len(number.frac) > d /\ DigitOf(number.frac[d + 1]) >= 5
             THEN AddSmall(exact, 1) ELSE exact)
       ELSE NearestDouble(exact, 0, 0)

\* rounded = scaled / 10^d (i18ncpp.cpp:777), then integerPart =
\* static_cast<long long>(rounded) (778) and scaledFract =
\* static_cast<long long>(std::round((rounded - integerPart) * 10^d)) (792), both
\* as to_string writes them. From ExactBelow on the quotient is at least 2^52 in
\* the model, where every double is a whole number and the fractional part is 0.
Parts(scaled, d) ==
    LET padded == Zeros(d - Len(scaled)) \o scaled
        q == IF Len(scaled) > d THEN SubSeq(scaled, 1, Len(scaled) - d) ELSE <<"0">>
        low == SubSeq(padded, Len(padded) - d + 1, Len(padded))
    IN IF NatLess(StripZeros(scaled), ExactBelow)
       THEN [integerPart |-> q, scaledFract |-> StripZeros(low)]
       ELSE [integerPart |-> NearestDouble(q, Written(low), d), scaledFract |-> <<"0">>]

\* The loop of separateThousand: insert at insertPos, then three to the left.
RECURSIVE InsertSeparators(_, _, _)
InsertSeparators(integerPart, separator, insertPos) ==
    IF insertPos > 0
    THEN InsertSeparators(SubSeq(integerPart, 1, insertPos) \o separator
                              \o SubSeq(integerPart, insertPos + 1, Len(integerPart)),
                          separator, insertPos - 3)
    ELSE integerPart

separateThousand(amount, separator) ==
    LET decimalPos == FindChar(amount, ".", 1)
        whole == IF decimalPos # 0 THEN SubSeq(amount, 1, decimalPos - 1) ELSE amount
        fractionalPart == IF decimalPos # 0 THEN SubSeq(amount, decimalPos, Len(amount)) ELSE <<>>
        isNegative == whole # <<>> /\ whole[1] = "-"
        integerPart == IF isNegative THEN Tail(whole) ELSE whole
    IN (IF isNegative THEN <<"-">> ELSE <<>>)
           \o InsertSeparators(integerPart, separator, Len(integerPart) - 3)
           \o fractionalPart

formatNumberWithConfig(number, config) ==
    LET d == config.fract_digits
        isNegative == number.neg
        parts == Parts(Scaled(number, d), d)
        integerStr == separateThousand(parts.integerPart, config.thousand_separator)
        fractionalStr == parts.scaledFract
        result == IF d > 0
                  THEN integerStr \o config.decimal_symbol
                           \o Zeros(d - Len(fractionalStr)) \o fractionalStr
                  ELSE integerStr
    IN IF isNegative THEN config.negative_symbol \o result
       ELSE IF config.positive_symbol # <<>> THEN config.positive_symbol \o result
       ELSE result

formatNumber(number, config) == formatNumberWithConfig(number, config.number)

\* Arguments of formatNumber and formatPrice: the double nearest to the decimal
\* int.frac, negative when neg. They are below 10^12, or whole numbers from 2^52
\* to 2^63 / 1000.
Numbers ==
    {[neg |-> FALSE, int |-> <<"0">>, frac |-> <<>>],
     [neg |-> TRUE, int |-> <<"5">>, frac |-> <<>>],
     [neg |-> FALSE, int |-> <<"1","0">>, frac |-> <<>>],  \* "10"
     [neg |-> FALSE, int |-> <<"1","2","3","4">>, frac |-> <<"5">>],  \* "1234"
     [neg |-> FALSE, int |-> <<"0">>, frac |-> <<"0","5">>],  \* "05"
     [neg |-> TRUE, int |-> <<"9","9","9","9","9","9">>, frac |-> <<"9","9">>],  \* "999999", "99"
     [neg |-> FALSE, int |-> <<"1","0","0","0">>, frac |-> <<>>],  \* "1000"
     [neg |-> FALSE, int |-> <<"1","0","0">>, frac |-> <<>>],  \* "100"
     [neg |-> FALSE, int |-> <<"1","2","3","4","5","6","7">>, frac |-> <<"0","6","2","5">>],  \* "1234567", "0625"
     [neg |-> FALSE, int |-> <<"0">>, frac |-> <<"1","2","5">>],  \* "125"
     [neg |-> FALSE, int |-> <<"9","9","9">>, frac |-> <<"9","9","9">>],  \* "999"
     [neg |-> TRUE, int |-> <<"0">>, frac |-> <<"0","0","1">>],  \* "001"
     [neg |-> FALSE, int |-> <<"4","5","0","3","5","9","9","6","2","7","3","7","0","4","9","7">>, frac |-> <<>>],  \* "4503599627370497"
     [neg |-> FALSE, int |-> <<"5","9","8","5","1","8","0","9","1","8","9","8","7","7","2","8">>, frac |-> <<>>],  \* "5985180918987728"
     [neg |-> TRUE, int |-> <<"8","2","6","4","4","3","8","9","0","7","4","6","1","0","4","5">>, frac |-> <<>>],  \* "8264438907461045"
     [neg |-> FALSE, int |-> <<"8","2","6","4","4","3","8","9","0","7","4","6","1","0","4","5">>, frac |-> <<>>]}  \* "8264438907461045"

\* Arguments of configure that change how numbers are written.
NumberBlocks ==
    <<Obj(<<Pair(<<"n","u","m","b","e","r">>, Obj(<<Pair(<<"d","e","c","i","m","a","l","_","s","y","m","b","o","l">>, JString(<<",">>)),  \* "number", "decimal_symbol"
                                    Pair(<<"t","h","o","u","s","a","n","d","_","s","e","p","a","r","a","t","o","r">>, JString(<<".">>)),  \* "thousand_separator"
                                    Pair(<<"f","r","a","c","t","_","d","i","g","i","t","s">>, JNumber(3)),  \* "fract_digits"
                                    Pair(<<"p","o","s","i","t","i","v","e","_","s","y","m","b","o","l">>, JString(<<"+">>))>>))>>),  \* "positive_symbol"
      Obj(<<Pair(<<"n","u","m","b","e","r">>, Obj(<<Pair(<<"t","h","o","u","s","a","n","d","_","s","e","p","a","r","a","t","o","r">>, JString(<<>>)),  \* "number", "thousand_separator"
                                    Pair(<<"f","r","a","c","t","_","d","i","g","i","t","s">>, JNumber(1)),  \* "fract_digits"
                                    Pair(<<"n","e","g","a","t","i","v","e","_","s","y","m","b","o","l">>, JString(<<"m","i","n","u","s"," ">>))>>))>>),  \* "negative_symbol", "minus "
      Obj(<<Pair(<<"n","u","m","b","e","r">>, Obj(<<Pair(<<"f","r","a","c","t","_","d","i","g","i","t","s">>, JNumber(0))>>))>>)>>  \* "number", "fract_digits"

FormatNumber(number) ==
    /\ call = Idle
    /\ call' = [op |-> "formatNumber", number |-> number, out |-> formatNumber(number, defaultConfig)]
    /\ Unchanged


-----------------------------------------------------------------------------
(* Price formatting *)

\* formatPriceWithConfig with one format for both signs.
formatPricePositiveFormat(amount, config) ==
    config.symbol \o <<" ">> \o
        formatNumberWithConfig(amount, [decimal_symbol |-> config.decimal_symbol,
                                        thousand_separator |-> config.thousand_separator,
                                        fract_digits |-> config.fract_digits,
                                        positive_symbol |-> config.positive_symbol,
                                        negative_symbol |-> config.negative_symbol])

\* The loop of formatPriceWithConfig from index pos of the pattern (from 1).
RECURSIVE PriceLoop(_, _, _, _)
PriceLoop(pattern, pos, formattedNumber, symbol) ==
    IF pos > Len(pattern) THEN <<>>
    ELSE LET foundPos == FindChar(pattern, "%", pos)
         IN IF foundPos = 0 THEN SubSeq(pattern, pos, Len(pattern))
            ELSE SubSeq(pattern, pos, foundPos - 1) \o
                 (IF foundPos + 1 <= Len(pattern)
                  THEN (CASE pattern[foundPos + 1] = "p" -> <<>>
                          [] pattern[foundPos + 1] = "q" -> formattedNumber
                          [] pattern[foundPos + 1] = "c" -> symbol
                          [] OTHER -> <<"%", pattern[foundPos + 1]>>)
                       \o PriceLoop(pattern, foundPos + 2, formattedNumber, symbol)
                  ELSE <<"%">> \o PriceLoop(pattern, foundPos + 1, formattedNumber, symbol))

formatPriceWithConfig(amount, config) ==
    LET formattedNumber ==
            formatNumberWithConfig(amount, [decimal_symbol |-> config.decimal_symbol,
                                            thousand_separator |-> config.thousand_separator,
                                            fract_digits |-> config.fract_digits,
                                            positive_symbol |-> config.positive_symbol,
                                            negative_symbol |-> config.negative_symbol])
        pattern == IF amount.neg THEN config.negative_format ELSE config.positive_format
    IN PriceLoop(pattern, 1, formattedNumber, config.symbol)

formatPrice(amount, config) == formatPriceWithConfig(amount, config.currency)

\* Arguments of configure that change how prices are written: patterns with `%%`,
\* an unknown `%x`, a `%` at the end and a symbol that reads like a token.
CurrencyBlocks ==
    <<Obj(<<Pair(<<"c","u","r","r","e","n","c","y">>, Obj(<<Pair(<<"s","y","m","b","o","l">>, JString(<<"$">>)),  \* "currency", "symbol"
                                      Pair(<<"t","h","o","u","s","a","n","d","_","s","e","p","a","r","a","t","o","r">>, JString(<<",">>)),  \* "thousand_separator"
                                      Pair(<<"f","r","a","c","t","_","d","i","g","i","t","s">>, JNumber(0)),  \* "fract_digits"
                                      Pair(<<"p","o","s","i","t","i","v","e","_","f","o","r","m","a","t">>, JString(<<"%","c","%","q">>)),  \* "positive_format", "%c%q"
                                      Pair(<<"n","e","g","a","t","i","v","e","_","f","o","r","m","a","t">>, JString(<<"(","%","q"," ","%","c",")"," ","1","0","0","%">>))>>))>>),  \* "negative_format", "(%q %c) 100%"
      Obj(<<Pair(<<"c","u","r","r","e","n","c","y">>, Obj(<<Pair(<<"s","y","m","b","o","l">>, JString(<<"%","q">>)),  \* "currency", "symbol", "%q"
                                      Pair(<<"d","e","c","i","m","a","l","_","s","y","m","b","o","l">>, JString(<<",">>)),  \* "decimal_symbol"
                                      Pair(<<"f","r","a","c","t","_","d","i","g","i","t","s">>, JNumber(1)),  \* "fract_digits"
                                      Pair(<<"p","o","s","i","t","i","v","e","_","s","y","m","b","o","l">>, JString(<<"+">>)),  \* "positive_symbol"
                                      Pair(<<"p","o","s","i","t","i","v","e","_","f","o","r","m","a","t">>, JString(<<"%","p","%","q","%","%"," ","%","x","%","c","%">>)),  \* "positive_format", "%p%q%% %x%c%"
                                      Pair(<<"n","e","g","a","t","i","v","e","_","f","o","r","m","a","t">>, JString(<<"%">>))>>))>>)>>  \* "negative_format"

FormatPrice(amount) ==
    /\ call = Idle
    /\ call' = [op |-> "formatPrice", amount |-> amount, out |-> formatPrice(amount, defaultConfig)]
    /\ Unchanged

FormatNext ==
    \/ Resume
    \/ call = Idle /\ Reset
    \/ call = Idle /\ \E i \in DOMAIN NumberBlocks : Configure(NumberBlocks[i])
    \/ call = Idle /\ \E i \in DOMAIN CurrencyBlocks : Configure(CurrencyBlocks[i])
    \/ call = Idle /\ \E number \in Numbers : FormatNumber(number)
    \/ call = Idle /\ \E amount \in Numbers : FormatPrice(amount)

FormatSpec == Init /\ [][FormatNext]_vars

\* The digits of a natural with the separator between groups of three counted
\* from the right.
Grouped(digits, separator) ==
    Concat([i \in 1..Len(digits) |->
               (IF i > 1 /\ (Len(digits) - i + 1) % 3 = 0 THEN separator ELSE <<>>) \o <<digits[i]>>])

\* Whether the decimal int.frac is a multiple of 10^-d.
IsMultiple(number, d) == \A i \in (d + 1)..Len(number.frac) : number.frac[i] = "0"

ExpectedNumber(number, config) ==
    (IF number.neg THEN config.negative_symbol ELSE config.positive_symbol)
        \o Grouped(number.int, config.thousand_separator)
        \o config.decimal_symbol
        \o SubSeq(number.frac \o Zeros(config.fract_digits), 1, config.fract_digits)

\* C21: for a value x that is a multiple of 10^-d, d = fract_digits >= 1,
\* formatNumber(x) is the sign symbol (negative_symbol for x < 0, otherwise
\* positive_symbol), the digits of the integer part of |x| with thousand_separator
\* between groups of three counted from the right, decimal_symbol, and exactly d
\* fraction digits.
C21_FormatNumber ==
    (/\ call.op = "formatNumber"
     /\ defaultConfig.number.fract_digits >= 1
     /\ IsMultiple(call.number, defaultConfig.number.fract_digits))
        => call.out = ExpectedNumber(call.number, defaultConfig.number)

\* The statement of C21 holds for the values whose product with 10^d is below
\* ExactBelow.
C21_WithinPrecision ==
    (/\ call.op = "formatNumber"
     /\ NatLess(call.number.int \o Zeros(defaultConfig.number.fract_digits), ExactBelow))
        => C21_FormatNumber

\* The examples of C21 with the default config.
C21_Examples ==
    (call.op = "formatNumber" /\ defaultConfig = DefaultFormatConfig) =>
        /\ call.number = [neg |-> FALSE, int |-> <<"1","2","3","4">>, frac |-> <<"5">>] => call.out = <<"1"," ","2","3","4",".","5","0">>  \* "1234", "1 234.50"
        /\ call.number = [neg |-> TRUE, int |-> <<"5">>, frac |-> <<>>] => call.out = <<"-","5",".","0","0">>  \* "-5.00"

\* formatNumber(8264438907461045) with the default config writes ...044.00.
C21_UnitLost ==
    /\ call.op = "formatNumber"
    /\ defaultConfig = DefaultFormatConfig
    /\ call.number = [neg |-> FALSE, int |-> <<"8","2","6","4","4","3","8","9","0","7","4","6","1","0","4","5">>, frac |-> <<>>]  \* "8264438907461045"
    /\ call.out = <<"8"," ","2","6","4"," ","4","3","8"," ","9","0","7"," ","4","6","1"," ","0","4","4",".","0","0">>  \* "8 264 438 907 461 044.00"

\* One reading of a price pattern from its i-th character: `%q` is the number,
\* `%c` the symbol, `%p` nothing, any other `%x` and a `%` at the end stay.
RECURSIVE ExpandedPrice(_, _, _, _)
ExpandedPrice(pattern, i, number, symbol) ==
    IF i > Len(pattern) THEN <<>>
    ELSE IF pattern[i] = "%" /\ i < Len(pattern)
    THEN (IF pattern[i + 1] = "q" THEN number
          ELSE IF pattern[i + 1] = "c" THEN symbol
          ELSE IF pattern[i + 1] = "p" THEN <<>>
          ELSE <<"%", pattern[i + 1]>>)
         \o ExpandedPrice(pattern, i + 2, number, symbol)
    ELSE <<pattern[i]>> \o ExpandedPrice(pattern, i + 1, number, symbol)

\* The number config that the claim builds from a currency config.
NumberConfigOf(currency) ==
    [decimal_symbol |-> currency.decimal_symbol, thousand_separator |-> currency.thousand_separator,
     fract_digits |-> currency.fract_digits, positive_symbol |-> currency.positive_symbol,
     negative_symbol |-> currency.negative_symbol]

\* C22: formatPrice(amount) is the pattern (negative_format for amount < 0,
\* positive_format otherwise) read once from left to right with `%q` replaced by
\* the amount formatted under the currency config's separators, digits and sign
\* symbols, `%c` by the currency symbol, `%p` by nothing, every other `%x` and a
\* `%` at the end kept, and all other characters copied; with the default config
\* formatPrice(10) is "XXX 10.00".
C22_FormatPrice ==
    call.op = "formatPrice" =>
        /\ call.out =
               ExpandedPrice(IF call.amount.neg THEN defaultConfig.currency.negative_format
                             ELSE defaultConfig.currency.positive_format,
                             1,
                             formatNumberWithConfig(call.amount, NumberConfigOf(defaultConfig.currency)),
                             defaultConfig.currency.symbol)
        /\ (defaultConfig = DefaultFormatConfig
            /\ call.amount = [neg |-> FALSE, int |-> <<"1","0">>, frac |-> <<>>])  \* "10"
               => call.out = <<"X","X","X"," ","1","0",".","0","0">>  \* "XXX 10.00"

\* formatPrice(-5) under negative_format "(%q %c) 100%" and a positive_format
\* that differs from it.
C22_Witness ==
    /\ call.op = "formatPrice"
    /\ call.amount = [neg |-> TRUE, int |-> <<"5">>, frac |-> <<>>]
    /\ defaultConfig.currency.negative_format = <<"(","%","q"," ","%","c",")"," ","1","0","0","%">>  \* "(%q %c) 100%"
    /\ defaultConfig.currency.positive_format = <<"%","c","%","q">>  \* "%c%q"
    /\ call.out = <<"(","-","5"," ","$",")"," ","1","0","0","%">>  \* "(-5 $) 100%"

\* formatPrice(10) under positive_format "%p%q%% %x%c%" and the symbol "%q".
C22_UnknownTokensKept ==
    /\ call.op = "formatPrice"
    /\ call.amount = [neg |-> FALSE, int |-> <<"1","0">>, frac |-> <<>>]  \* "10"
    /\ defaultConfig.currency.positive_format = <<"%","p","%","q","%","%"," ","%","x","%","c","%">>  \* "%p%q%% %x%c%"
    /\ call.out = <<"+","1","0",",","0","%","%"," ","%","x","%","q","%">>  \* "+10,0%% %x%q%"

-----------------------------------------------------------------------------
(* Date formatting *)

\* Division and remainder of int in C++: the quotient is cut towards zero.
Quotient(a, b) == IF a >= 0 THEN a \div b ELSE -((-a) \div b)

Remainder(a, b) == a - (b * Quotient(a, b))

\* std::to_string(value / 10) followed by std::to_string(value % 10).
TwoDigits(value) == to_string(Quotient(value, 10)) \o to_string(Remainder(value, 10))

\* names[index] under the test 0 <= index < names.size(), nothing otherwise.
NameAt(names, index) == IF index >= 0 /\ index < Len(names) THEN names[index + 1] ELSE <<>>

\* The switch of formatDateWithConfig on the character after a `%`; the name
\* lists are those of the member defaultConfig.
DateToken(formatChar, timeinfo) ==
    CASE formatChar = "H" -> TwoDigits(timeinfo.tm_hour)
      [] formatChar \in {"M", "i"} -> TwoDigits(timeinfo.tm_min)
      [] formatChar \in {"S", "s"} -> TwoDigits(timeinfo.tm_sec)
      [] formatChar = "d" -> TwoDigits(timeinfo.tm_mday)
      [] formatChar = "m" -> TwoDigits(timeinfo.tm_mon + 1)
      [] formatChar = "Y" -> to_string(timeinfo.tm_year + 1900)
      [] formatChar = "l" -> NameAt(defaultConfig.long_day_names, timeinfo.tm_wday)
      [] formatChar = "F" -> NameAt(defaultConfig.long_month_names, timeinfo.tm_mon)
      [] formatChar = "a" -> NameAt(defaultConfig.short_day_names, timeinfo.tm_wday)
      [] formatChar = "b" -> NameAt(defaultConfig.short_month_names, timeinfo.tm_mon)
      [] OTHER -> <<"%", formatChar>>

\* The loop of formatDateWithConfig from index pos of the pattern (from 1).
RECURSIVE DateLoop(_, _, _)
DateLoop(formatPattern, pos, timeinfo) ==
    IF pos > Len(formatPattern) THEN <<>>
    ELSE LET foundPos == FindChar(formatPattern, "%", pos)
         IN IF foundPos = 0 THEN SubSeq(formatPattern, pos, Len(formatPattern))
            ELSE SubSeq(formatPattern, pos, foundPos - 1) \o
                 (IF foundPos + 1 <= Len(formatPattern)
                  THEN DateToken(formatPattern[foundPos + 1], timeinfo)
                           \o DateLoop(formatPattern, foundPos + 2, timeinfo)
                  ELSE <<"%">> \o DateLoop(formatPattern, foundPos + 1, timeinfo))

\* The pattern that formatDateWithConfig scans.
FormatPattern(pattern, config) ==
    IF pattern = <<>> THEN <<"%","Y","-","%","m","-","%","d","T","%","H",":","%","M",":","%","S">>  \* "%Y-%m-%dT%H:%M:%S"
    ELSE IF pattern = <<"l","o","n","g","_","t","i","m","e">> THEN config.long_time  \* "long_time"
    ELSE IF pattern = <<"s","h","o","r","t","_","t","i","m","e">> THEN config.short_time  \* "short_time"
    ELSE IF pattern = <<"l","o","n","g","_","d","a","t","e">> THEN config.long_date  \* "long_date"
    ELSE IF pattern = <<"s","h","o","r","t","_","d","a","t","e">> THEN config.short_date  \* "short_date"
    ELSE IF pattern = <<"l","o","n","g","_","d","a","t","e","_","t","i","m","e">> THEN config.long_date_time  \* "long_date_time"
    ELSE IF pattern = <<"s","h","o","r","t","_","d","a","t","e","_","t","i","m","e">> THEN config.short_date_time  \* "short_date_time"
    ELSE pattern

\* formatDateWithConfig for the broken-down time it works on: *date, or the
\* local time of the call when date is null.
formatDateWithConfig(pattern, timeinfo, config) ==
    DateLoop(FormatPattern(pattern, config), 1, timeinfo)

\* A std::tm, by the members the function reads.
Tm(year, mon, mday, hour, min, sec, wday) ==
    [tm_year |-> year, tm_mon |-> mon, tm_mday |-> mday, tm_hour |-> hour, tm_min |-> min,
     tm_sec |-> sec, tm_wday |-> wday]

\* Local times the clock can give: Tuesday 2024-03-05 09:07:03 and Friday
\* 1999-12-31 23:59:60.
ClockTimes == {Tm(124, 2, 5, 9, 7, 3, 2), Tm(99, 11, 31, 23, 59, 60, 5)}

\* Arguments date of formatDate: the times above, Sunday 0900-01-01 00:00:00,
\* Monday 10000-10-10 10:10:10, and two std::tm that were not normalised (month
\* index 12, weekday -1 and hour 24; hour 100 and minute -5).
Dates ==
    ClockTimes \cup {Tm(-1000, 0, 1, 0, 0, 0, 0), Tm(8100, 9, 10, 10, 10, 10, 1),
                     Tm(124, 12, 5, 24, 7, 3, -1), Tm(124, 2, 5, 100, -5, 3, 2)}

\* The argument date = nullptr.
NullDate == [null |-> TRUE]

DateAliases ==
    {<<"l","o","n","g","_","t","i","m","e">>, <<"s","h","o","r","t","_","t","i","m","e">>, <<"l","o","n","g","_","d","a","t","e">>, <<"s","h","o","r","t","_","d","a","t","e">>, <<"l","o","n","g","_","d","a","t","e","_","t","i","m","e">>,  \* "long_time", "short_time", "long_date", "short_date", "long_date_time"
     <<"s","h","o","r","t","_","d","a","t","e","_","t","i","m","e">>}  \* "short_date_time"

\* Arguments pattern of formatDate.
DatePatterns ==
    DateAliases \cup
        {<<>>, <<"%","Y","-","%","m","-","%","d">>, <<"%","l"," ","%","a",","," ","%","F"," ","%","b">>, <<"%","H",":","%","i",":","%","s"," ","%","M",".","%","S">>, <<"1","0","0","%">>, <<"%","%","d"," ","%","x","%","Y">>,  \* "%Y-%m-%d", "%l %a, %F %b", "%H:%i:%s %M.%S", "100%", "%%d %x%Y"
         <<"l","o","n","g","_","t","i","m","e"," ">>, <<"%","B"," ","%","e">>}  \* "long_time ", "%B %e"

\* Arguments of configure that change how dates are written: an empty pattern
\* and an alias name as a pattern, and name lists of two names.
DateBlocks ==
    <<Obj(<<Pair(<<"d","a","t","e","_","t","i","m","e">>, Obj(<<Pair(<<"l","o","n","g","_","t","i","m","e">>, JString(<<>>)),  \* "date_time", "long_time"
                                       Pair(<<"s","h","o","r","t","_","t","i","m","e">>, JString(<<"%","H",".","%","M">>)),  \* "short_time", "%H.%M"
                                       Pair(<<"l","o","n","g","_","d","a","t","e">>, JString(<<"%","l"," ","%","d"," ","%","F">>)),  \* "long_date", "%l %d %F"
                                       Pair(<<"s","h","o","r","t","_","d","a","t","e">>, JString(<<"s","h","o","r","t","_","t","i","m","e">>))>>))>>),  \* "short_date", "short_time"
      Obj(<<Pair(<<"l","o","n","g","_","m","o","n","t","h","_","n","a","m","e","s">>, JArray(<<JString(<<"j","a","n","v","i","e","r">>), JString(<<"f","e","v","r","i","e","r">>)>>)),  \* "long_month_names", "janvier", "fevrier"
            Pair(<<"s","h","o","r","t","_","d","a","y","_","n","a","m","e","s">>, JArray(<<JString(<<"d","i">>), JString(<<"l","u">>)>>))>>)>>  \* "short_day_names", "di", "lu"

FormatDate(pattern, date) ==
    /\ call = Idle
    /\ \E now \in ClockTimes :
           LET timeinfo == IF date = NullDate THEN now ELSE date
           IN call' = [op |-> "formatDate", pattern |-> pattern, date |-> date, timeinfo |-> timeinfo,
                       out |-> formatDateWithConfig(pattern, timeinfo, defaultConfig.date_time)]
    /\ Unchanged

DateNext ==
    \/ Resume
    \/ call = Idle /\ Reset
    \/ call = Idle /\ \E i \in DOMAIN DateBlocks : Configure(DateBlocks[i])
    \/ call = Idle /\ \E pattern \in DatePatterns, date \in Dates \cup {NullDate} :
           FormatDate(pattern, date)

DateSpec == Init /\ [][DateNext]_vars

\* The decimal writing of an integer, with zeros in front up to a width.
Padded(n, width) == Zeros(width - Len(to_string(n))) \o to_string(n)

\* What C23 puts for the token `%x` (x one of the letters it names).
ExpectedToken(x, t, config) ==
    CASE x = "H" -> Padded(t.tm_hour, 2)
      [] x \in {"M", "i"} -> Padded(t.tm_min, 2)
      [] x \in {"S", "s"} -> Padded(t.tm_sec, 2)
      [] x = "d" -> Padded(t.tm_mday, 2)
      [] x = "m" -> Padded(t.tm_mon + 1, 2)
      [] x = "Y" -> Padded(t.tm_year + 1900, 4)
      [] x = "l" -> IF t.tm_wday + 1 \in DOMAIN config.long_day_names
                    THEN config.long_day_names[t.tm_wday + 1] ELSE <<>>
      [] x = "a" -> IF t.tm_wday + 1 \in DOMAIN config.short_day_names
                    THEN config.short_day_names[t.tm_wday + 1] ELSE <<>>
      [] x = "F" -> IF t.tm_mon + 1 \in DOMAIN config.long_month_names
                    THEN config.long_month_names[t.tm_mon + 1] ELSE <<>>
      [] x = "b" -> IF t.tm_mon + 1 \in DOMAIN config.short_month_names
                    THEN config.short_month_names[t.tm_mon + 1] ELSE <<>>

DateLetters == {"H", "M", "i", "S", "s", "d", "m", "Y", "l", "a", "F", "b"}

\* One reading of a date pattern from its i-th character.
RECURSIVE ExpandedDate(_, _, _, _)
ExpandedDate(pattern, i, t, config) ==
    IF i > Len(pattern) THEN <<>>
    ELSE IF pattern[i] = "%" /\ i < Len(pattern)
    THEN (IF pattern[i + 1] \in DateLetters THEN ExpectedToken(pattern[i + 1], t, config)
          ELSE <<"%", pattern[i + 1]>>)
         \o ExpandedDate(pattern, i + 2, t, config)
    ELSE <<pattern[i]>> \o ExpandedDate(pattern, i + 1, t, config)

\* The pattern C23 scans: the configured one for an alias, ISO 8601 for the
\* empty pattern, the pattern itself otherwise.
ExpectedPattern(pattern, config) ==
    CASE pattern = <<"l","o","n","g","_","t","i","m","e">> -> config.date_time.long_time  \* "long_time"
      [] pattern = <<"s","h","o","r","t","_","t","i","m","e">> -> config.date_time.short_time  \* "short_time"
      [] pattern = <<"l","o","n","g","_","d","a","t","e">> -> config.date_time.long_date  \* "long_date"
      [] pattern = <<"s","h","o","r","t","_","d","a","t","e">> -> config.date_time.short_date  \* "short_date"
      [] pattern = <<"l","o","n","g","_","d","a","t","e","_","t","i","m","e">> -> config.date_time.long_date_time  \* "long_date_time"
      [] pattern = <<"s","h","o","r","t","_","d","a","t","e","_","t","i","m","e">> -> config.date_time.short_date_time  \* "short_date_time"
      [] pattern = <<>> -> <<"%","Y","-","%","m","-","%","d","T","%","H",":","%","M",":","%","S">>  \* "%Y-%m-%dT%H:%M:%S"
      [] OTHER -> pattern

\* C23: formatDate(pattern, date) scans the configured pattern for one of the
\* six aliases, the pattern itself for any other non-empty string and
\* "%Y-%m-%dT%H:%M:%S" for the empty one, once from left to right: %H, %M/%i,
\* %S/%s, %d and %m (month + 1) become two digits with a leading zero, %Y the
\* 4-digit year, %l/%a the long/short weekday name and %F/%b the long/short month
\* name at the given index (nothing for an index outside the list); any other
\* `%x` and a `%` at the end are kept.
C23_FormatDate ==
    call.op = "formatDate" =>
        call.out = ExpandedDate(ExpectedPattern(call.pattern, defaultConfig), 1, call.timeinfo, defaultConfig)

\* A time with a year of four digits and every other member inside the range of
\* std::tm or one past it.
FourDigitYearInRange(t) ==
    /\ t.tm_year + 1900 \in 1000..9999
    /\ t.tm_hour \in 0..24 /\ t.tm_min \in 0..59 /\ t.tm_sec \in 0..60
    /\ t.tm_mday \in 1..31 /\ t.tm_mon \in 0..12

\* The statement of C23 holds for such times, whatever the name index.
C23_FourDigitYears ==
    (call.op = "formatDate" /\ FourDigitYearInRange(call.timeinfo)) => C23_FormatDate

\* formatDate("%Y-%m-%d", 0900-01-01) is "900-01-01".
C23_YearOfThreeDigits ==
    /\ call.op = "formatDate"
    /\ call.pattern = <<"%","Y","-","%","m","-","%","d">>  \* "%Y-%m-%d"
    /\ call.date = Tm(-1000, 0, 1, 0, 0, 0, 0)
    /\ call.out = <<"9","0","0","-","0","1","-","0","1">>  \* "900-01-01"

\* formatDate("%H:%i:%s %M.%S", date) with tm_hour = 100 and tm_min = -5 is
\* "100:0-5:03 0-5.03".
C23_NotTwoDigits ==
    /\ call.op = "formatDate"
    /\ call.pattern = <<"%","H",":","%","i",":","%","s"," ","%","M",".","%","S">>  \* "%H:%i:%s %M.%S"
    /\ call.timeinfo.tm_min = -5
    /\ call.out = <<"1","0","0",":","0","-","5",":","0","3"," ","0","-","5",".","0","3">>  \* "100:0-5:03 0-5.03"

\* formatDate("%l %a, %F %b", date) after configure gave two long month names and
\* two short day names: the names outside the lists are left out.
C23_NamesOutsideList ==
    /\ call.op = "formatDate"
    /\ call.pattern = <<"%","l"," ","%","a",","," ","%","F"," ","%","b">>  \* "%l %a, %F %b"
    /\ call.date = Tm(124, 2, 5, 9, 7, 3, 2)
    /\ call.out = <<"T","u","e","s","d","a","y"," ",","," "," ","M","a","r">>  \* "Tuesday ,  Mar"

\* Whether part occurs in text.
Occurs(part, text) ==
    \E i \in 1..(Len(text) - Len(part) + 1) : SubSeq(text, i, i + Len(part) - 1) = part

\* C25: with the default FormatConfig, formatDate with each of the six aliases
\* leaves no `%x` of the default pattern in its output, and long_date and
\* long_date_time write the month name of the date.
C25_DefaultAliases ==
    (/\ call.op = "formatDate"
     /\ defaultConfig = DefaultFormatConfig
     /\ call.pattern \in DateAliases)
        => /\ ~Occurs(<<"%">>, call.out)
           /\ (call.pattern \in {<<"l","o","n","g","_","d","a","t","e">>, <<"l","o","n","g","_","d","a","t","e","_","t","i","m","e">>} /\ call.timeinfo.tm_mon \in 0..11)  \* "long_date", "long_date_time"
                  => Occurs(DefaultFormatConfig.long_month_names[call.timeinfo.tm_mon + 1], call.out)

\* The four aliases whose default pattern has no `%B` are substituted in full.
C25_AliasesWithoutMonthName ==
    (/\ call.op = "formatDate"
     /\ defaultConfig = DefaultFormatConfig
     /\ call.pattern \in {<<"l","o","n","g","_","t","i","m","e">>, <<"s","h","o","r","t","_","t","i","m","e">>, <<"s","h","o","r","t","_","d","a","t","e">>, <<"s","h","o","r","t","_","d","a","t","e","_","t","i","m","e">>})  \* "long_time", "short_time", "short_date", "short_date_time"
        => C25_DefaultAliases

\* formatDate("long_date", 2024-03-05) with the default config is "%B 05, 2024".
C25_MonthTokenKept ==
    /\ call.op = "formatDate"
    /\ defaultConfig = DefaultFormatConfig
    /\ call.pattern = <<"l","o","n","g","_","d","a","t","e">>  \* "long_date"
    /\ call.date = Tm(124, 2, 5, 9, 7, 3, 2)
    /\ call.out = <<"%","B"," ","0","5",","," ","2","0","2","4">>  \* "%B 05, 2024"

-----------------------------------------------------------------------------
(* Order of the candidate list *)

\* setFallbackLocale and getFallbacks on a fresh instance.
FallbackNext ==
    \/ Resume
    \/ call = Idle /\ \E locale \in {en, enUS, ru, <<>>} : SetFallbackLocale(locale)
    \/ call = Idle /\ \E requested \in RequestLists : GetFallbacks(requested)

FallbackSpec == Init /\ [][FallbackNext]_vars

\* Whether a is a proper ancestor of b: a shorter prefix of b that ends just
\* before a '-'.
IsProperAncestor(a, b) ==
    Len(a) < Len(b) /\ SubSeq(b, 1, Len(a)) = a /\ b[Len(a) + 1] = "-"

\* The identifiers of the ancestry of a locale.
InAncestry(id, locale) == \E n \in DOMAIN Ancestry(locale) : Ancestry(locale)[n] = id

\* C24: the candidate list of getFallbacks is ordered from most to least
\* specific: no identifier of the list appears after one of its own proper
\* ancestors.
C24_MostSpecificFirst ==
    call.op = "getFallbacks" =>
        \A i, j \in DOMAIN call.out : i < j => ~IsProperAncestor(call.out[i], call.out[j])

\* C24 as the code has it: an identifier appears after one of its proper
\* ancestors only when an earlier requested locale than any that has the
\* identifier in its ancestry brought the ancestor, or when the identifier is
\* the fallback locale, appended last and in no requested ancestry.
C24_SpecificFirstPerRequest ==
    call.op = "getFallbacks" =>
        \A i, j \in DOMAIN call.out :
            (i < j /\ IsProperAncestor(call.out[i], call.out[j])) =>
                \/ \E k \in DOMAIN call.requested :
                       /\ InAncestry(call.out[i], call.requested[k])
                       /\ \A m \in 1..k : ~InAncestry(call.out[j], call.requested[m])
                \/ /\ j = Len(call.out)
                   /\ call.out[j] = fallbackLocale
                   /\ \A m \in DOMAIN call.requested : ~InAncestry(call.out[j], call.requested[m])

\* getFallbacks(["en", "en-US"]) with the fallback "ru": "en-US" comes after "en".
C24_Witness ==
    /\ call.op = "getFallbacks"
    /\ call.requested = <<en, enUS>>
    /\ fallbackLocale = ru
    /\ call.out = <<en, enUS, ru>>

\* getFallbacks(["en"]) with the fallback "en-US": the fallback comes after "en".
C24_FallbackAfterAncestor ==
    /\ call.op = "getFallbacks"
    /\ call.requested = <<en>>
    /\ fallbackLocale = enUS
    /\ call.out = <<en, enUS>>

====
